---- MODULE Spec2Model ----
(***************************************************************************)
(* The dialogue orchestration engine of artex-ai-voice: AgentService       *)
(* (get_reply and _execute_function_call) over the process-wide map        *)
(* _conversation_histories, the session lifecycle of                       *)
(* LiveKitParticipantHandler, and the directive handling of                *)
(* run_cli_conversation_loop.                                              *)
(*                                                                         *)
(* The repository holds two copies of the code.  Both are modelled; the    *)
(* variable `variant` says which copy is running:                          *)
(*    "src"         : src/src/                                             *)
(*    "artex_agent" : src/artex_agent/src/                                 *)
(*                                                                         *)
(* asyncio runs one coroutine at a time and switches only at an await, so  *)
(* every action below is the code between two awaits.                      *)
(***************************************************************************)
EXTENDS Integers, Sequences, FiniteSets, TLC

VARIABLES
    variant,                 \* which copy of the code is running
    AsyncSessionFactory,     \* database.AsyncSessionFactory: "configured" or "None"
    sinistres,               \* committed rows of table sinistres_artex
    heap,                    \* the Python list objects that hold histories
    conversation_histories,  \* _conversation_histories: conversation id -> list object
    frame,                   \* per task: the local variables of its get_reply call
    exec,                    \* per task: the local variables of its _execute_function_call
    last,                    \* per task: how its last finished get_reply ended
    quota,                   \* per task: get_reply calls it may still start
    irregularLeft,           \* gateway answers other than plain text still allowed
    newConvLeft,             \* conversations the callers may still open
    handler,                 \* the fields of the LiveKitParticipantHandler object
    tasks,                   \* its two asyncio tasks and the caller of disconnect()
    clock,                   \* seconds since the last user activity, the monitor's timer
    trace,                   \* what the handler has done so far, in order
    cli                      \* the locals of run_cli_conversation_loop

\* The variables of AgentService, of the handler, of the CLI loop.
svars == <<variant, AsyncSessionFactory, sinistres, heap, conversation_histories,
           frame, exec, last, quota, irregularLeft, newConvLeft>>
hvars == <<handler, tasks, clock, trace>>
cvars == <<cli>>

vars == <<variant, AsyncSessionFactory, sinistres, heap, conversation_histories,
          frame, exec, last, quota, irregularLeft, newConvLeft,
          handler, tasks, clock, trace, cli>>

(***************************************************************************)
(* Program constants and bounds                                            *)
(***************************************************************************)
MAX_HISTORY_TURNS_API == 10
\* gemini_client.MAX_RETRIES: the attempts generate_text_response makes.
MAX_RETRIES == 3
\* gemini_client: the first wait between two attempts and the longest one,
\* in seconds.
INITIAL_BACKOFF_SECONDS == 1
MAX_BACKOFF_SECONDS == 16

\* Gateway answers other than a plain text answer with all three usage
\* counts, and minted ids that repeat a stored one, that one run may
\* contain.
MaxIrregular == 1
\* get_reply calls task 1 makes in SpecConc, overlapping the one call of task 2.
MaxConcCalls == 1
\* The get_reply calls the caller of SpecTurn makes.
MaxTurns == 1
\* The disconnect() calls made from outside the two tasks of a session.
MaxDisconnects == 1
\* The longest reply text, in tokens, the caller loop is handed.
MaxTextLen == 2
\* The get_reply calls the caller of SpecConversation makes.
MaxCalls == 2
\* The connections one handler of SpecSessions goes through.
MaxConnects == 2

Unlimited == 0 - 1

Variants == {"src", "artex_agent"}
Tasks == {1, 2}
ConvIds == {"conv_a", "conv_b"}
NoConv == "None"
\* An id a caller may pass that no history is stored under.
StaleConv == "conv_stale"

(***************************************************************************)
(* Tool calls, tool results and the persistent data                        *)
(***************************************************************************)
ToolNames == {"get_contrat_details", "open_claim", "get_last_reimbursement"}
Catalogue == {"get_contrat_details", "open_claim"}

\* "None" stands for an absent (or empty, hence falsy) argument.
Numeros == {"None", "NC123", "NC404", "NC000"}
DateStrs == {"None", "2024-01-31", "31/01/2024"}

ToolCall(n, num, ty, de, da) ==
    [name |-> n, numero_contrat |-> num, type_sinistre |-> ty,
     description_sinistre |-> de, date_survenance |-> da]

NoCall == ToolCall("-", "None", "None", "None", "None")

ToolCalls ==
    {ToolCall("get_contrat_details", num, "None", "None", "None") : num \in Numeros}
    \cup {ToolCall("open_claim", num, ty, de, da) :
              num \in Numeros, ty \in {"None", "Vol"},
              de \in {"None", "desc"}, da \in DateStrs}
    \cup {ToolCall("get_last_reimbursement", "NC123", "None", "None", "None")}

\* The tool calls the gateway stub of the turn loop hands out.
GatewayToolCalls ==
    {ToolCall("get_contrat_details", "NC123", "None", "None", "None"),
     ToolCall("open_claim", "NC123", "Vol", "desc", "2024-01-31"),
     ToolCall("get_last_reimbursement", "NC123", "None", "None", "None")}

Truthy(v) == v # "None"

\* datetime.date.fromisoformat: TRUE when the string parses, FALSE for ValueError.
FromIsoFormatOk(d) == d \in {"2024-01-31"}

\* Table contrats as the backend stub serves it: NC123 has a primary
\* policyholder, NC000 is served without one, NC404 does not exist.
NoContrat == [id_contrat |-> 0, id_adherent_principal |-> 0]
ContratTable(num) ==
    CASE num = "NC123" -> [id_contrat |-> 1, id_adherent_principal |-> 7]
      [] num = "NC000" -> [id_contrat |-> 2, id_adherent_principal |-> 0]
      [] OTHER -> NoContrat

\* ContratRepository.get_contrat_by_numero_contrat: the row or None (NoContrat).
get_contrat_by_numero_contrat(num) == ContratTable(num)

\* The mapped columns of SinistreArtex a constructor keyword may name.
SinistreArtexColumns ==
    {"id_sinistre_artex", "id_contrat", "id_adherent", "type_sinistre",
     "description_sinistre", "date_declaration_agent", "statut_sinistre_artex",
     "date_survenance", "contrat", "adherent"}

\* The keys of the dict open_claim builds for create_sinistre_artex.
SinistreDataKeys(call) ==
    {"id_contrat", "id_adherent", "type_sinistre", "description_sinistre", "claim_id_ref"}
    \cup (IF Truthy(call.date_survenance) THEN {"date_survenance"} ELSE {})

\* uuid.uuid4().hex[:8]: the references the generator may hand out.
ClaimRefs == {"CLAIM-0A", "CLAIM-0B"}

\* A tool result (the dict _execute_function_call returns): tag "error" is a
\* dict with key "error"; msg names the message template, about the value the
\* template interpolates, exc_text whether str(exception) is part of it.
Result(tag, msg, about) == [tag |-> tag, msg |-> msg, about |-> about, exc_text |-> FALSE]
NoResult == Result("-", "-", "-")

\* The default reply with the tool's name left out of the message.
DefaultErrorAs(call) == Result("error", "execution_failed", "-")
\* response = {"error": f"Tool '{tool_name}' execution failed."}
DefaultError(call) == Result("error", "execution_failed", call.name)

\* The except branch's reply with str(e) put into the message.
ErreurInterneAs(v, call) == [Result("error", "erreur_interne", "-") EXCEPT !.exc_text = TRUE]
\* The except branch's reply.
ErreurInterne(v, call) ==
    IF v = "src" THEN Result("error", "erreur_interne", "-")
                 ELSE Result("error", "erreur_interne", call.name)

\* The frame of one _execute_function_call: pc is "none" (no call), "called",
\* "await_details" / "await_contrat" (suspended in the repository read),
\* "returned" or "raised".  backend_calls counts the repository and commit
\* calls made, committed the rows this invocation committed.
NoExec ==
    [pc |-> "none", call |-> NoCall, response |-> NoResult,
     session |-> "none", rolled_back |-> FALSE, pending |-> {}, committed |-> {},
     backend_calls |-> 0, backend_raised |-> FALSE]

BackendOutcomes == {"ok", "raises"}

\* "error" not in response
HasNoError(response) == response.tag # "error"


(***************************************************************************)
(* AgentService._execute_function_call                                     *)
(***************************************************************************)
\* The statements after the async-with block: the session closes, the
\* response is returned.
ExecReturn(e, response) ==
    [e EXCEPT !.pc = "returned", !.response = response,
              !.session = IF e.rolled_back THEN "rolled_back" ELSE "closed",
              !.pending = {}]

\* An except branch that keeps the session open and its pending rows.
ExecExceptAs(e) ==
    [e EXCEPT !.pc = "returned", !.response = ErreurInterne(variant, e.call)]

\* except Exception: await session.rollback(); response = internal error.
ExecExcept(e) ==
    ExecReturn([e EXCEPT !.rolled_back = TRUE, !.pending = {}],
               ErreurInterne(variant, e.call))

\* From the call to the first await (or to the return when there is none).
ExecEnter(p) ==
    /\ exec[p].pc = "called"
    /\ LET e == [exec[p] EXCEPT !.response = DefaultError(exec[p].call)]
           c == e.call
           opened == [e EXCEPT !.session = "open"]
       IN  exec' = [exec EXCEPT ![p] =
             IF AsyncSessionFactory = "None"
             THEN IF variant = "artex_agent"
                  THEN [e EXCEPT !.pc = "returned",
                                 !.response = Result("error", "factory_not_configured", "-")]
                  ELSE [e EXCEPT !.pc = "raised"]   \* None() raises TypeError outside the try
             ELSE CASE c.name = "get_contrat_details" ->
                         IF Truthy(c.numero_contrat)
                         THEN [opened EXCEPT !.pc = "await_details", !.backend_calls = @ + 1]
                         ELSE ExecReturn(opened, Result("error", "numero_manquant", "-"))
                    [] c.name = "open_claim" ->
                         IF Truthy(c.numero_contrat) /\ Truthy(c.type_sinistre)
                              /\ Truthy(c.description_sinistre)
                         THEN [opened EXCEPT !.pc = "await_contrat", !.backend_calls = @ + 1]
                         ELSE ExecReturn(opened, Result("error", "params_manquants", "-"))
                    [] OTHER -> ExecReturn(opened, opened.response)]
    /\ UNCHANGED <<hvars, cvars>>
    /\ UNCHANGED <<variant, AsyncSessionFactory, sinistres, heap, conversation_histories,
                   frame, last, quota, irregularLeft, newConvLeft>>

\* get_contrat_details_for_function_call returns (data or None) or raises.
ExecDetailsReturn(p) ==
    /\ exec[p].pc = "await_details"
    /\ \E o \in BackendOutcomes :
         LET e == exec[p]
             num == e.call.numero_contrat
         IN  exec' = [exec EXCEPT ![p] =
               IF o = "raises"
               THEN ExecExcept([e EXCEPT !.backend_raised = TRUE])
               ELSE IF get_contrat_by_numero_contrat(num) # NoContrat
                    THEN ExecReturn(e, Result("payload", "contrat_details", num))
                    ELSE ExecReturn(e, Result("error", "contrat_non_trouve", num))]
    /\ UNCHANGED <<hvars, cvars>>
    /\ UNCHANGED <<variant, AsyncSessionFactory, sinistres, heap, conversation_histories,
                   frame, last, quota, irregularLeft, newConvLeft>>

\* if contrat and contrat.id_adherent_principal (the artex_agent copy tests
\* "is not None" on both ids; 0 stands for None here).
ContratUsable(contrat) ==
    contrat # NoContrat /\ contrat.id_adherent_principal # 0 /\ contrat.id_contrat # 0

\* The response after the date_survenance block: the date error when the
\* string does not parse, the response as it stood otherwise.
AfterDateCheck(response, date_str) ==
    IF Truthy(date_str) /\ ~FromIsoFormatOk(date_str)
    THEN Result("error", "date_invalide", date_str)
    ELSE response

\* get_contrat_by_numero_contrat returns (contrat or None) or raises; the
\* rest of the open_claim branch follows.  o2 and o3 are what flush and
\* commit would do, ref the reference uuid4 hands out.
ExecContratReturn(p) ==
    /\ exec[p].pc = "await_contrat"
    /\ \E o \in BackendOutcomes, o2 \in BackendOutcomes, o3 \in BackendOutcomes,
          ref \in ClaimRefs :
         LET e == exec[p]
             c == e.call
             contrat == get_contrat_by_numero_contrat(c.numero_contrat)
             response == AfterDateCheck(e.response, c.date_survenance)
             row == [id_sinistre_artex |-> Cardinality(sinistres) + 1,
                     id_contrat |-> contrat.id_contrat,
                     id_adherent |-> contrat.id_adherent_principal,
                     type_sinistre |-> c.type_sinistre,
                     description_sinistre |-> c.description_sinistre,
                     date_survenance |-> c.date_survenance,
                     claim_id_ref |-> ref]
             \* SinistreArtex(**sinistre_data) raises TypeError on a keyword
             \* that is no mapped attribute.
             constructed == SinistreDataKeys(c) \subseteq SinistreArtexColumns
         IN  IF o = "raises"
             THEN /\ exec' = [exec EXCEPT ![p] = ExecExcept([e EXCEPT !.backend_raised = TRUE])]
                  /\ UNCHANGED sinistres
             ELSE IF ~ContratUsable(contrat)
             THEN /\ exec' = [exec EXCEPT ![p] =
                        ExecReturn(e, Result("error", "contrat_non_trouve", c.numero_contrat))]
                  /\ UNCHANGED sinistres
             ELSE IF ~HasNoError(response)
             THEN /\ exec' = [exec EXCEPT ![p] = ExecReturn(e, response)]
                  /\ UNCHANGED sinistres
             ELSE IF ~constructed
             THEN /\ exec' = [exec EXCEPT ![p] = ExecExcept(e)]
                  /\ UNCHANGED sinistres
             ELSE IF o2 = "raises"
             THEN /\ exec' = [exec EXCEPT ![p] =
                        ExecExcept([e EXCEPT !.backend_raised = TRUE, !.backend_calls = @ + 1])]
                  /\ UNCHANGED sinistres
             ELSE IF o3 = "raises"
             THEN /\ exec' = [exec EXCEPT ![p] =
                        ExecExcept([e EXCEPT !.backend_raised = TRUE, !.backend_calls = @ + 2,
                                             !.pending = {row}])]
                  /\ UNCHANGED sinistres
             ELSE /\ exec' = [exec EXCEPT ![p] =
                        ExecReturn([e EXCEPT !.backend_calls = @ + 2, !.committed = {row}],
                                   Result("payload", "sinistre_enregistre", ref))]
                  /\ sinistres' = sinistres \cup {row}
    /\ UNCHANGED <<hvars, cvars>>
    /\ UNCHANGED <<variant, AsyncSessionFactory, heap, conversation_histories,
                   frame, last, quota, irregularLeft, newConvLeft>>

(***************************************************************************)
(* Histories: Python lists of content dicts                                *)
(***************************************************************************)
\* One history entry.  by is the task whose get_reply appended it (for a
\* user entry: whose user_message it holds).
Entry(role, kind, text, call, response, by) ==
    [role |-> role, kind |-> kind, text |-> text, call |-> call,
     response |-> response, by |-> by]

UserEntry(p) == Entry("user", "text", "user_message", NoCall, NoResult, p)
ModelTextEntry(p, text) == Entry("model", "text", text, NoCall, NoResult, p)
ToolRequestEntry(p, call) == Entry("model", "function_call", "-", call, NoResult, p)
ToolResultEntry(p, call, response) ==
    Entry("function", "function_response", "-", call, response, p)

\* history[-n:]
LastN(h, n) == IF Len(h) <= n THEN h ELSE SubSeq(h, Len(h) - n + 1, Len(h))

\* A list object id not in use.
NewObject(hp) ==
    CHOOSE i \in 1..(Cardinality(DOMAIN hp) + 1) : i \notin DOMAIN hp

\* The list objects still referenced: by the map or by a get_reply frame.
Referenced(map, fr) ==
    {map[c] : c \in DOMAIN map} \cup {fr[p].history : p \in Tasks}

Collected(hp, map, fr) ==
    [o \in (DOMAIN hp) \cap Referenced(map, fr) |-> hp[o]]

(***************************************************************************)
(* The LLM gateway: what one generate_text_response call hands back        *)
(***************************************************************************)
\* kind: "text" (text parts only), "fc" (a function_call part, no text),
\* "text_fc" (both), "empty" (parts without text or function_call), "none"
\* (no candidates, or no content/parts), "raises" (every retry failed).
Response(kind, call) == [kind |-> kind, call |-> call]

GatewayResponses ==
    {Response(k, NoCall) : k \in {"text", "empty", "none", "raises"}}
    \cup {Response(k, c) : k \in {"fc", "text_fc"}, c \in GatewayToolCalls}

HasFunctionCall(resp) == resp.kind \in {"fc", "text_fc"}

\* response.usage_metadata: absent (or falsy), or its three counts.
UsageMetadata(p, c, t) ==
    [present |-> TRUE, prompt_token_count |-> p, candidates_token_count |-> c,
     total_token_count |-> t]

NoMeta == [present |-> FALSE, prompt_token_count |-> 0, candidates_token_count |-> 0,
           total_token_count |-> 0]
FullMeta == UsageMetadata(2, 1, 3)

\* The metadata a response may carry: none, all three counts, no candidates
\* count, no total count.
UsageMetadatas == {NoMeta, FullMeta, UsageMetadata(2, 0, 3), UsageMetadata(2, 1, 0)}

Usage(p, c, t) == [prompt_tokens |-> p, completion_tokens |-> c, total_tokens |-> t]
NoUsage == Usage(0, 0, 0)

\* gemini_client.extract_usage_metadata
extract_usage_metadata(meta) ==
    IF ~meta.present THEN NoUsage
    ELSE LET prompt == meta.prompt_token_count
             total == meta.total_token_count
             completion == IF meta.candidates_token_count = 0 /\ total > prompt
                           THEN total - prompt
                           ELSE meta.candidates_token_count
         IN  Usage(prompt, completion,
                   IF total = 0 /\ (prompt > 0 \/ completion > 0)
                   THEN prompt + completion ELSE total)

\* "for k in usage: usage[k] += meta.get(k, 0)"
Accumulate(usage, meta) ==
    Usage(usage.prompt_tokens + meta.prompt_tokens,
          usage.completion_tokens + meta.completion_tokens,
          usage.total_tokens + meta.total_tokens)

\* Whether get_reply hands a usage back: the src copy returns (text,
\* conversation_id, history, usage), the artex_agent copy the first three.
ReturnsUsage(v) == v = "src"
HasText(resp) == resp.kind \in {"text", "text_fc"}

(***************************************************************************)
(* AgentService.get_reply                                                  *)
(***************************************************************************)
\* The frame of one get_reply call: pc is "idle" (no call), "gen1" (awaiting
\* the first gateway call), "tool" (awaiting _execute_function_call) or
\* "gen2" (awaiting the gateway call after the tool result).  gateway_calls
\* and dispatch_calls count the calls made so far; fc_only says that every
\* gateway response so far was a bare function call.  current_retry is the
\* and backoff_time are the locals of the generate_text_response call being
\* awaited, slept the asyncio.sleep calls it has made; retried says that
\* some attempt of this get_reply call failed and was retried.  given is the
\* conversation_id argument, known_ids the keys of conversation_histories
\* when the call began and stored what was stored under the argument then.
\* usage is the local dict of the src copy, metas the usage_metadata of the
\* responses it was accumulated from.
NoFrame ==
    [pc |-> "idle", conversation_id |-> NoConv, history |-> 0, tool_call |-> NoCall,
     gateway_calls |-> 0, dispatch_calls |-> 0, fc_only |-> TRUE,
     current_retry |-> 0, backoff_time |-> INITIAL_BACKOFF_SECONDS, slept |-> <<>>,
     retried |-> FALSE,
     given |-> NoConv, known_ids |-> {}, stored |-> <<>>,
     usage |-> NoUsage, metas |-> <<>>]

\* How a get_reply call ended: status "returned" or "raised", the text it
\* returned, and the gateway and dispatcher calls it made.  Of its last
\* generate_text_response call: the attempts made, the waits slept, and
\* whether every attempt failed (exhausted).
NoLast ==
    [status |-> "none", text |-> "-", conversation_id |-> NoConv,
     gateway_calls |-> 0, dispatch_calls |-> 0, fc_only |-> FALSE,
     tool |-> "-", retried |-> FALSE,
     attempts |-> 0, slept |-> <<>>, exhausted |-> FALSE,
     given |-> NoConv, known_ids |-> {}, stored |-> <<>>,
     usage_returned |-> FALSE, usage |-> NoUsage, metas |-> <<>>]

\* The attempts of the generate_text_response call that has just ended:
\* those that failed, and the one that returned unless all failed.
Attempts(f) ==
    IF f.pc \notin {"gen1", "gen2"} THEN 0
    ELSE IF f.current_retry < MAX_RETRIES THEN f.current_retry + 1
    ELSE f.current_retry

Ended(f, status, text, fc_only) ==
    [status |-> status, text |-> text, conversation_id |-> f.conversation_id,
     gateway_calls |-> f.gateway_calls, dispatch_calls |-> f.dispatch_calls,
     fc_only |-> fc_only, tool |-> f.tool_call.name, retried |-> f.retried,
     attempts |-> Attempts(f), slept |-> f.slept,
     exhausted |-> (f.pc \in {"gen1", "gen2"} /\ f.current_retry = MAX_RETRIES),
     given |-> f.given, known_ids |-> f.known_ids, stored |-> f.stored,
     usage_returned |-> (status = "returned" /\ ReturnsUsage(variant)),
     usage |-> f.usage, metas |-> f.metas]

\* The number of raw entries the trim keeps.
TrimLimit(v) ==
    IF v = "src" THEN MAX_HISTORY_TURNS_API * 4 ELSE MAX_HISTORY_TURNS_API * 2

\* "# trim history": the map after it, given the call's list object obj,
\* whose content is h, and a fresh object id.
TrimmedMap(map, cid, obj, h, fresh) ==
    IF Len(h) > TrimLimit(variant)
    THEN [map EXCEPT ![cid] = fresh]
    ELSE IF variant = "src" THEN map ELSE [map EXCEPT ![cid] = obj]

TrimmedHeap(hp, obj, h, fresh) ==
    LET hp1 == [hp EXCEPT ![obj] = h]
    IN  IF Len(h) > TrimLimit(variant)
        THEN [o \in DOMAIN hp1 \cup {fresh} |->
                 IF o = fresh THEN LastN(h, TrimLimit(variant)) ELSE hp1[o]]
        ELSE hp1

\* The end of a get_reply call that returns: the final entries appended to
\* the call's list give h, the history is trimmed, the frame f goes.
ReturnFrom(p, f, h, text, fc_only) ==
    LET fresh == NewObject(heap)
        fr == [frame EXCEPT ![p] = NoFrame]
        map == TrimmedMap(conversation_histories, f.conversation_id, f.history, h, fresh)
    IN  /\ frame' = fr
        /\ conversation_histories' = map
        /\ heap' = Collected(TrimmedHeap(heap, f.history, h, fresh), map, fr)
        /\ last' = [last EXCEPT ![p] = Ended(f, "returned", text, fc_only)]

Return(p, h, text, fc_only) == ReturnFrom(p, frame[p], h, text, fc_only)

\* The end of a get_reply call that lets an exception escape.
Raise(p) ==
    LET f == frame[p]
        fr == [frame EXCEPT ![p] = NoFrame]
    IN  /\ frame' = fr
        /\ heap' = Collected(heap, conversation_histories, fr)
        /\ last' = [last EXCEPT ![p] = Ended(f, "raised", "-", f.fc_only)]
        /\ UNCHANGED conversation_histories

\* The except branch of the artex_agent copy: the default error text is
\* appended unless the last entry already has role "model".
ExceptAppend(p, h) ==
    IF Len(h) = 0 \/ h[Len(h)].role # "model"
    THEN Append(h, ModelTextEntry(p, "erreur_technique"))
    ELSE h

\* "if not conversation_id or conversation_id not in
\* self.conversation_histories", negated.
Known(cid, map) == cid # NoConv /\ cid \in DOMAIN map

\* get_reply up to its first await: the history is looked up or created, the
\* user entry appended.  cid is the caller's conversation_id argument,
\* minted the id built from the session id and uuid4().hex[:8]: an id not in
\* use, or (repeated, as a random suffix may be) the id of a stored
\* conversation, which is then assigned the new empty list.
Start(p) ==
    /\ frame[p].pc = "idle"
    /\ quota[p] # 0
    /\ \E cid \in ConvIds \cup {NoConv, StaleConv}, minted \in ConvIds :
         LET known == Known(cid, conversation_histories)
             id == IF known THEN cid ELSE minted
             fresh == NewObject(heap)
             obj == IF known THEN conversation_histories[cid] ELSE fresh
             old == IF known THEN heap[obj] ELSE <<>>
             repeated == ~known /\ minted \in DOMAIN conversation_histories
             map == IF known THEN conversation_histories
                    ELSE [c \in DOMAIN conversation_histories \cup {id} |->
                             IF c = id THEN fresh ELSE conversation_histories[c]]
         IN  /\ \/ known
                \/ minted \notin DOMAIN conversation_histories /\ newConvLeft > 0
                \/ repeated /\ irregularLeft > 0
             /\ IF known THEN minted = cid ELSE minted # cid
             /\ newConvLeft' = IF known \/ repeated THEN newConvLeft ELSE newConvLeft - 1
             /\ irregularLeft' = IF repeated THEN irregularLeft - 1 ELSE irregularLeft
             /\ conversation_histories' = map
             /\ heap' = Collected([o \in DOMAIN heap \cup {obj} |->
                                      IF o = obj THEN Append(old, UserEntry(p))
                                      ELSE heap[o]],
                                  map, [frame EXCEPT ![p].history = obj])
             /\ frame' = [frame EXCEPT ![p] =
                  [NoFrame EXCEPT !.pc = "gen1", !.conversation_id = id,
                                  !.history = obj, !.gateway_calls = 1,
                                  !.given = cid,
                                  !.known_ids = DOMAIN conversation_histories,
                                  !.stored =
                                      IF cid \in DOMAIN conversation_histories
                                      THEN heap[conversation_histories[cid]]
                                      ELSE <<>>]]
    /\ quota' = [quota EXCEPT ![p] = IF @ = Unlimited THEN @ ELSE @ - 1]
    /\ UNCHANGED <<hvars, cvars>>
    /\ UNCHANGED <<variant, AsyncSessionFactory, sinistres, exec, last>>

Min(a, b) == IF a <= b THEN a ELSE b

\* A retry loop whose wait triples.
GatewayRetryAs(p) ==
    /\ frame[p].pc \in {"gen1", "gen2"}
    /\ frame[p].current_retry < MAX_RETRIES
    /\ frame' = [frame EXCEPT ![p].current_retry = @ + 1, ![p].retried = TRUE,
                              ![p].slept = Append(@, frame[p].backoff_time),
                              ![p].backoff_time = Min(MAX_BACKOFF_SECONDS, @ * 3)]
    /\ UNCHANGED <<hvars, cvars>>
    /\ UNCHANGED <<variant, AsyncSessionFactory, sinistres, heap, conversation_histories,
                   exec, last, quota, irregularLeft, newConvLeft>>

\* One attempt of generate_text_response fails: the except branch of its
\* while loop sleeps for backoff_time, counts the retry and doubles the wait
\* up to MAX_BACKOFF_SECONDS.
GatewayRetry(p) ==
    /\ frame[p].pc \in {"gen1", "gen2"}
    /\ frame[p].current_retry < MAX_RETRIES
    /\ frame' = [frame EXCEPT ![p].current_retry = @ + 1, ![p].retried = TRUE,
                              ![p].slept = Append(@, frame[p].backoff_time),
                              ![p].backoff_time = Min(MAX_BACKOFF_SECONDS, @ * 2)]
    /\ UNCHANGED <<hvars, cvars>>
    /\ UNCHANGED <<variant, AsyncSessionFactory, sinistres, heap, conversation_histories,
                   exec, last, quota, irregularLeft, newConvLeft>>

\* generate_text_response raises exactly when its loop has used up
\* MAX_RETRIES attempts; before that an attempt may return a response.
GatewayOutcome(f, resp) ==
    (resp.kind = "raises") <=> (f.current_retry = MAX_RETRIES)

\* A final text with no substitute for a response without text.
DirectTextAs(v, resp) == IF HasText(resp) THEN "answer" ELSE ""

\* The text get_reply settles on when the first response carries no
\* function call.
DirectText(v, resp) ==
    IF HasText(resp) THEN "answer"
    ELSE IF v = "src" THEN "pas_de_reponse"
    ELSE IF resp.kind = "none" THEN "erreur_communication"
    ELSE "pas_de_reponse_textuelle"

\* The first gateway call comes back.
Gen1Return(p) ==
    /\ frame[p].pc = "gen1"
    /\ \E resp \in GatewayResponses, meta \in UsageMetadatas :
         LET f0 == frame[p]
             read == ReturnsUsage(variant) /\ resp.kind # "raises"
             f == IF read
                  THEN [f0 EXCEPT !.usage = Accumulate(@, extract_usage_metadata(meta)),
                                  !.metas = Append(@, meta)]
                  ELSE f0
             h == heap[f.history]
             irregular == (IF resp.kind # "text" THEN 1 ELSE 0)
                          + (IF meta # FullMeta THEN 1 ELSE 0)
         IN  /\ GatewayOutcome(f, resp)
             /\ ~read => meta = FullMeta
             /\ irregularLeft >= irregular
             /\ irregularLeft' = irregularLeft - irregular
             /\ IF resp.kind = "raises"
                THEN IF variant = "src"
                     THEN Raise(p) /\ UNCHANGED exec
                     ELSE Return(p, ExceptAppend(p, h), "erreur_technique", FALSE)
                          /\ UNCHANGED exec
                ELSE IF HasFunctionCall(resp)
                THEN /\ heap' = [heap EXCEPT ![f.history] =
                                    Append(h, ToolRequestEntry(p, resp.call))]
                     /\ frame' = [frame EXCEPT ![p] =
                          [f EXCEPT !.pc = "tool", !.tool_call = resp.call,
                                    !.dispatch_calls = 1, !.current_retry = 0,
                                    !.backoff_time = INITIAL_BACKOFF_SECONDS,
                                    !.slept = <<>>,
                                    !.fc_only = (resp.kind = "fc")]]
                     /\ exec' = [exec EXCEPT ![p] =
                          [NoExec EXCEPT !.pc = "called", !.call = resp.call]]
                     /\ UNCHANGED <<conversation_histories, last>>
                ELSE LET text == DirectText(variant, resp)
                     IN  ReturnFrom(p, f, Append(h, ModelTextEntry(p, text)), text, FALSE)
                         /\ UNCHANGED exec
    /\ UNCHANGED <<hvars, cvars>>
    /\ UNCHANGED <<variant, AsyncSessionFactory, sinistres, quota, newConvLeft>>

\* _execute_function_call comes back to get_reply.  The src copy then
\* evaluates Part.from_function_response with no name Part in the module:
\* NameError.  The artex_agent copy appends the function entry and calls the
\* gateway again.
ToolReturn(p) ==
    /\ frame[p].pc = "tool"
    /\ exec[p].pc \in {"returned", "raised"}
    /\ LET f == frame[p]
           h == heap[f.history]
       IN  IF variant = "src"
           THEN Raise(p)
           ELSE IF exec[p].pc = "raised"
           THEN Return(p, ExceptAppend(p, h), "erreur_technique", FALSE)
           ELSE /\ heap' = [heap EXCEPT ![f.history] =
                               Append(h, ToolResultEntry(p, f.tool_call, exec[p].response))]
                /\ frame' = [frame EXCEPT ![p] =
                     [f EXCEPT !.pc = "gen2", !.gateway_calls = @ + 1,
                               !.current_retry = 0,
                               !.backoff_time = INITIAL_BACKOFF_SECONDS,
                               !.slept = <<>>]]
                /\ UNCHANGED <<conversation_histories, last>>
    /\ exec' = [exec EXCEPT ![p] = NoExec]
    /\ UNCHANGED <<hvars, cvars>>
    /\ UNCHANGED <<variant, AsyncSessionFactory, sinistres, quota, irregularLeft, newConvLeft>>

\* The text the artex_agent copy settles on after the tool round trip.
AfterToolText(resp) ==
    CASE HasText(resp) -> "answer"
      [] resp.kind = "fc" -> "agent_action_en_attente"
      [] resp.kind = "empty" -> "non_disponible_apres_outil"
      [] OTHER -> "erreur_communication_apres_outil"

\* A turn loop that runs a function call of the resumed response as well.
Gen2ReturnAs(p) ==
    /\ frame[p].pc = "gen2"
    /\ \E resp \in GatewayResponses :
         LET f == frame[p]
             h == heap[f.history]
         IN  /\ GatewayOutcome(f, resp)
             /\ IF HasFunctionCall(resp)
                THEN /\ heap' = [heap EXCEPT ![f.history] =
                                    Append(h, ToolRequestEntry(p, resp.call))]
                     /\ frame' = [frame EXCEPT ![p] =
                          [f EXCEPT !.pc = "tool", !.tool_call = resp.call,
                                    !.dispatch_calls = @ + 1, !.current_retry = 0,
                                    !.backoff_time = INITIAL_BACKOFF_SECONDS,
                                    !.slept = <<>>]]
                     /\ exec' = [exec EXCEPT ![p] =
                          [NoExec EXCEPT !.pc = "called", !.call = resp.call]]
                     /\ UNCHANGED <<conversation_histories, last>>
                ELSE /\ Return(p, ExceptAppend(p, h), "erreur_technique", FALSE)
                     /\ UNCHANGED exec
    /\ UNCHANGED <<hvars, cvars>>
    /\ UNCHANGED <<variant, AsyncSessionFactory, sinistres, quota, irregularLeft, newConvLeft>>

\* The gateway call after the tool result comes back.
Gen2Return(p) ==
    /\ frame[p].pc = "gen2"
    /\ \E resp \in GatewayResponses :
         LET f == frame[p]
             h == heap[f.history]
         IN  /\ GatewayOutcome(f, resp)
             /\ IF resp.kind = "raises"
                THEN Return(p, ExceptAppend(p, h), "erreur_technique", FALSE)
                ELSE LET text == AfterToolText(resp)
                     IN  Return(p, Append(h, ModelTextEntry(p, text)), text,
                                f.fc_only /\ resp.kind = "fc")
    /\ UNCHANGED <<hvars, cvars>>
    /\ UNCHANGED <<variant, AsyncSessionFactory, sinistres, exec, quota, irregularLeft, newConvLeft>>

(***************************************************************************)
(* LiveKitParticipantHandler: the session lifecycle                        *)
(*                                                                         *)
(* The two copies of livekit_participant_handler.py differ in logging      *)
(* only.  connect() creates two asyncio tasks, _event_loop and             *)
(* _monitor_user_silence; disconnect() is run by the monitor on timeout    *)
(* and by any caller.  A task is cancelled as asyncio cancels it:          *)
(* CancelledError is raised at the await the task is suspended on, or at   *)
(* its next step when it is not suspended on a pending future.             *)
(***************************************************************************)
USER_SILENCE_HANGUP_SECONDS == 30
SILENCE_MONITOR_INTERVAL == 5
\* await asyncio.sleep(2) after the farewell.
FAREWELL_WAIT_SECONDS == 2
\* The idle time is counted up to here; more is not told apart.
IdleCap == USER_SILENCE_HANGUP_SECONDS + SILENCE_MONITOR_INTERVAL + 1

HandlerTasks == {"event_loop", "silence_monitor"}
Caller == "caller"
\* A second task of the application that calls disconnect().
OtherCaller == "other_caller"
Callers == {Caller, OtherCaller}

\* self.* of a handler that was constructed and never connected.
NoHandler ==
    [channel |-> "None", channel_closed |-> FALSE,
     event_loop_task |-> "None", silence_monitor_task |-> "None",
     is_disconnected_event |-> FALSE, welcome_message_played |-> FALSE]

\* One coroutine.  pc: "none" (not created), "start" (created, not yet
\* run), the await it is suspended on, "done" or (the caller) "returned".
\* must_cancel: CancelledError is raised in it at its next step.
\* to_cancel: inside disconnect(), the rest of tasks_to_cancel, its head
\* the task being awaited.  end: how a finished task came to finish.
NoTask == [pc |-> "none", must_cancel |-> FALSE, to_cancel |-> <<>>, end |-> "-"]

\* idle: loop.time() - last_user_activity_time, -1 while that is None.
\* timer: what is left of the monitor's current asyncio.sleep.
NoClock == [idle |-> 0 - 1, timer |-> 0]

NoTrace ==
    [connects |-> 0, welcome_calls |-> 0, farewell_calls |-> 0, farewell_sent |-> 0,
     disconnect_calls |-> 0, monitor_disconnects |-> 0, closes |-> 0,
     running_at_close |-> {}, events |-> <<>>, transcribed_text |-> "-"]

\* What ASRService.transcribe_audio_frames hands back: a text, possibly
\* empty, or one of its "[ASR_...]" signals (one stands for all); it
\* catches its own exceptions.
AsrSignals == {"[ASR_UNKNOWN_VALUE]"}
Transcriptions == {"", "bonjour"} \cup AsrSignals

\* "if transcribed_text and not transcribed_text.startswith("[ASR_")"
IsUserInput(text) == text # "" /\ text \notin AsrSignals

Done(ts, t) == ts[t].pc = "done"

\* if current_time - self.last_user_activity_time > USER_SILENCE_HANGUP_SECONDS,
\* under "self.welcome_message_played and self.last_user_activity_time".
IdleTimedOutAs(h, c) ==
    /\ h.welcome_message_played
    /\ c.idle > USER_SILENCE_HANGUP_SECONDS + SILENCE_MONITOR_INTERVAL
\* A comparison that is not strict.
IdleReachedAs(h, c) ==
    /\ h.welcome_message_played
    /\ c.idle >= USER_SILENCE_HANGUP_SECONDS
IdleTimedOut(h, c) ==
    /\ h.welcome_message_played
    /\ c.idle >= 0
    /\ c.idle > USER_SILENCE_HANGUP_SECONDS

\* Task.cancel().  A finished task is left alone.  A task suspended in
\* "await task" on an unfinished task passes the request on to that task
\* and is itself not marked; any other task gets CancelledError at its
\* next step.
Cancel(ts, t) ==
    IF ts[t].pc \in {"none", "done", "returned"} THEN ts
    ELSE LET u == IF ts[t].pc = "disc_await" THEN Head(ts[t].to_cancel) ELSE t
         IN  IF u # t /\ ~Done(ts, u)
             THEN [ts EXCEPT ![u].must_cancel = TRUE]
             ELSE [ts EXCEPT ![t].must_cancel = TRUE]

\* tasks_to_cancel as disconnect() builds it.
TasksToCancel(h, ts) ==
    (IF h.event_loop_task = "set" /\ ~Done(ts, "event_loop")
     THEN <<"event_loop">> ELSE <<>>)
    \o (IF h.silence_monitor_task = "set" /\ ~Done(ts, "silence_monitor")
        THEN <<"silence_monitor">> ELSE <<>>)

\* The for loop of disconnect(), run by t over the list L up to its next
\* suspension: finished tasks are passed over (cancel() does nothing,
\* "await task" returns at once), the first unfinished one is cancelled and
\* awaited.  <<>> when the loop runs to its end.
RECURSIVE Pending(_, _)
Pending(ts, L) ==
    IF L = <<>> THEN <<>>
    ELSE IF Done(ts, Head(L)) THEN Pending(ts, Tail(L))
    ELSE L

\* t suspended in the loop on the head of L, that head cancelled.
Suspended(ts, t, L) ==
    Cancel([ts EXCEPT ![t].pc = "disc_await", ![t].to_cancel = L, ![t].must_cancel = FALSE],
           Head(L))

\* t after disconnect() has returned to it: the monitor breaks out of its
\* loop and finishes, the caller has its answer.
AfterDisconnect(ts, t) ==
    IF t \in Callers
    THEN [ts EXCEPT ![t].pc = "returned", ![t].to_cancel = <<>>, ![t].must_cancel = FALSE]
    ELSE [ts EXCEPT ![t].pc = "done", ![t].to_cancel = <<>>, ![t].end = "timeout"]

\* As Released, but the channel field is kept after the close.
ReleasedAs(h) ==
    [h EXCEPT !.event_loop_task = "None", !.silence_monitor_task = "None",
              !.channel_closed = (h.channel = "set" \/ h.channel_closed)]

\* The statements of disconnect() after the loop: the task fields are
\* cleared, the channel, if there is one, is closed and cleared.
Released(h) ==
    [h EXCEPT !.event_loop_task = "None", !.silence_monitor_task = "None",
              !.channel = "None",
              !.channel_closed = (h.channel = "set" \/ h.channel_closed)]

\* disconnect() run by t from the loop over L on: either t suspends on a
\* task, or the loop is over and the rest of disconnect() runs.  ev are the
\* events t has logged in this step before.
DisconnectFrom(t, L, h, ts, ev) ==
    LET P == Pending(ts, L)
    IN  IF P # <<>>
        THEN /\ tasks' = Suspended(ts, t, P)
             /\ handler' = h
             /\ trace' = [trace EXCEPT
                  !.events = ev \o (IF Head(P) = "event_loop"
                                    THEN <<<<t, "loop_cancelled">>>> ELSE <<>>),
                  !.disconnect_calls = IF ts[t].pc = "disc_await" THEN @ ELSE @ + 1,
                  !.monitor_disconnects =
                      IF t = "silence_monitor" /\ ts[t].pc # "disc_await" THEN @ + 1 ELSE @]
        ELSE /\ tasks' = AfterDisconnect(ts, t)
             /\ handler' = Released(h)
             /\ trace' = [trace EXCEPT
                  !.events = ev \o (IF h.channel = "set"
                                    THEN <<<<t, "channel_closed">>>> ELSE <<>>),
                  !.closes = IF h.channel = "set" THEN @ + 1 ELSE @,
                  !.running_at_close =
                      IF h.channel = "set"
                      THEN {u \in HandlerTasks : ts[u].pc \notin {"none", "done"}}
                      ELSE @,
                  !.disconnect_calls = IF ts[t].pc = "disc_await" THEN @ ELSE @ + 1,
                  !.monitor_disconnects =
                      IF t = "silence_monitor" /\ ts[t].pc # "disc_await" THEN @ + 1 ELSE @]

\* disconnect() from its first statement, run by t.
DisconnectStart(t, ev) ==
    LET h == [handler EXCEPT !.is_disconnected_event = TRUE]
    IN  DisconnectFrom(t, TasksToCancel(h, tasks), h, tasks, ev)

\* connect(): the channel and the stub are made, the two tasks created.
Connect ==
    /\ trace.connects = 0
    /\ handler' = [handler EXCEPT !.channel = "set", !.event_loop_task = "set",
                                  !.silence_monitor_task = "set",
                                  !.welcome_message_played = FALSE]
    /\ clock' = NoClock
    /\ tasks' = [tasks EXCEPT !["event_loop"].pc = "start",
                              !["silence_monitor"].pc = "start"]
    /\ trace' = [trace EXCEPT !.connects = 1]
    /\ UNCHANGED <<svars, cvars>>

\* A task finishes.
Finished(ts, t, why) ==
    [ts EXCEPT ![t].pc = "done", ![t].end = why, ![t].must_cancel = FALSE,
               ![t].to_cancel = <<>>]

\* _event_loop up to its first await: the event is cleared, the Signal
\* stream opened.  A task cancelled before its first step never runs.
EventLoopStart ==
    /\ tasks["event_loop"].pc = "start"
    /\ IF tasks["event_loop"].must_cancel
       THEN /\ tasks' = Finished(tasks, "event_loop", "cancelled")
            /\ UNCHANGED handler
       ELSE /\ tasks' = [tasks EXCEPT !["event_loop"].pc = "stream"]
            /\ handler' = [handler EXCEPT !.is_disconnected_event = FALSE]
    /\ UNCHANGED <<clock, trace, svars, cvars>>

StreamResponses == {"join", "track_published", "leave", "error", "end"}

\* The stream hands _event_loop a response, fails ("error") or is exhausted
\* ("end").  A join of a connection whose welcome has not been played has
\* the welcome published.
EventLoopResponse ==
    /\ tasks["event_loop"].pc = "stream"
    /\ ~tasks["event_loop"].must_cancel
    /\ \E r \in StreamResponses :
         IF r \in {"error", "leave", "end"}
         THEN /\ tasks' = Finished(tasks, "event_loop",
                            IF r = "leave" /\ handler.is_disconnected_event
                            THEN "event" ELSE "server")
              /\ handler' = [handler EXCEPT !.is_disconnected_event = TRUE]
              /\ UNCHANGED trace
         ELSE IF handler.is_disconnected_event
         THEN /\ tasks' = Finished(tasks, "event_loop", "event")
              /\ UNCHANGED <<handler, trace>>
         ELSE IF r = "join"
         THEN /\ tasks' = [tasks EXCEPT !["event_loop"].pc =
                              IF handler.welcome_message_played THEN "stream"
                              ELSE "welcome_tts"]
              /\ trace' = [trace EXCEPT !.welcome_calls =
                              IF handler.welcome_message_played THEN @ ELSE @ + 1]
              /\ UNCHANGED handler
         ELSE /\ tasks' = [tasks EXCEPT !["event_loop"].pc = "asr"]
              /\ UNCHANGED <<handler, trace>>
    /\ UNCHANGED <<clock, svars, cvars>>

\* publish_tts_audio_to_room(WELCOME_MESSAGE_TEXT) returns to _event_loop.
EventLoopWelcomed ==
    /\ tasks["event_loop"].pc = "welcome_tts"
    /\ ~tasks["event_loop"].must_cancel
    /\ tasks' = [tasks EXCEPT !["event_loop"].pc = "stream"]
    /\ handler' = [handler EXCEPT !.welcome_message_played = TRUE]
    /\ clock' = [clock EXCEPT !.idle = 0]
    /\ UNCHANGED <<trace, svars, cvars>>

\* As EventLoopHeard, but whatever is not empty counts as activity.
EventLoopHeardAs ==
    /\ tasks["event_loop"].pc = "asr"
    /\ ~tasks["event_loop"].must_cancel
    /\ \E transcribed_text \in Transcriptions :
         /\ clock' = [clock EXCEPT !.idle = IF transcribed_text # "" THEN 0 ELSE @]
         /\ trace' = [trace EXCEPT !.transcribed_text = transcribed_text]
    /\ tasks' = [tasks EXCEPT !["event_loop"].pc = "stream"]
    /\ UNCHANGED <<handler, svars, cvars>>

\* transcribe_audio_frames returns: a transcription counts as activity,
\* an empty text or a signal does not.
EventLoopHeard ==
    /\ tasks["event_loop"].pc = "asr"
    /\ ~tasks["event_loop"].must_cancel
    /\ \E transcribed_text \in Transcriptions :
         /\ clock' = [clock EXCEPT !.idle = IF IsUserInput(transcribed_text) THEN 0 ELSE @]
         /\ trace' = [trace EXCEPT !.transcribed_text = transcribed_text]
    /\ tasks' = [tasks EXCEPT !["event_loop"].pc = "stream"]
    /\ UNCHANGED <<handler, svars, cvars>>

\* CancelledError reaches _event_loop at its await: except, finally.
EventLoopCancelled ==
    /\ tasks["event_loop"].pc \in {"stream", "welcome_tts", "asr"}
    /\ tasks["event_loop"].must_cancel
    /\ tasks' = Finished(tasks, "event_loop", "cancelled")
    /\ handler' = [handler EXCEPT !.is_disconnected_event = TRUE]
    /\ UNCHANGED <<clock, trace, svars, cvars>>

\* _monitor_user_silence up to its first await.  The loop runs the tasks in
\* the order connect() created them.
MonitorStart ==
    /\ tasks["silence_monitor"].pc = "start"
    /\ tasks["event_loop"].pc # "start"
    /\ IF tasks["silence_monitor"].must_cancel
       THEN tasks' = Finished(tasks, "silence_monitor", "cancelled") /\ UNCHANGED clock
       ELSE IF handler.is_disconnected_event
       THEN tasks' = Finished(tasks, "silence_monitor", "event") /\ UNCHANGED clock
       ELSE /\ tasks' = [tasks EXCEPT !["silence_monitor"].pc = "sleep"]
            /\ clock' = [clock EXCEPT !.timer = SILENCE_MONITOR_INTERVAL]
    /\ UNCHANGED <<handler, trace, svars, cvars>>

\* asyncio.sleep(SILENCE_MONITOR_INTERVAL) is over: the monitor looks at
\* the event and at the idle time, and sleeps again or says farewell.
MonitorWake ==
    /\ tasks["silence_monitor"].pc = "sleep"
    /\ ~tasks["silence_monitor"].must_cancel
    /\ clock.timer = 0
    /\ IF handler.is_disconnected_event
       THEN /\ tasks' = Finished(tasks, "silence_monitor", "event")
            /\ UNCHANGED <<clock, trace>>
       ELSE IF IdleTimedOut(handler, clock)
       THEN /\ tasks' = [tasks EXCEPT !["silence_monitor"].pc = "farewell_tts"]
            /\ trace' = [trace EXCEPT !.farewell_calls = @ + 1]
            /\ UNCHANGED clock
       ELSE /\ clock' = [clock EXCEPT !.timer = SILENCE_MONITOR_INTERVAL]
            /\ UNCHANGED <<tasks, trace>>
    /\ UNCHANGED <<handler, svars, cvars>>

\* publish_tts_audio_to_room(farewell) returns to the monitor, the audio
\* streamed or (TTS failure) not; the monitor starts its 2-second sleep.
MonitorFarewellDoneAs ==
    /\ tasks["silence_monitor"].pc = "farewell_tts"
    /\ ~tasks["silence_monitor"].must_cancel
    /\ DisconnectStart("silence_monitor",
                       Append(trace.events, <<"silence_monitor", "farewell_done">>))
    /\ UNCHANGED <<clock, svars, cvars>>
MonitorFarewellDone ==
    /\ tasks["silence_monitor"].pc = "farewell_tts"
    /\ ~tasks["silence_monitor"].must_cancel
    /\ \E sent \in BOOLEAN :
         trace' = [trace EXCEPT
             !.farewell_sent = IF sent THEN @ + 1 ELSE @,
             !.events = Append(@, <<"silence_monitor", "farewell_done">>)]
    /\ tasks' = [tasks EXCEPT !["silence_monitor"].pc = "wait"]
    /\ clock' = [clock EXCEPT !.timer = FAREWELL_WAIT_SECONDS]
    /\ UNCHANGED <<handler, svars, cvars>>

\* The 2-second sleep is over: await self.disconnect().
MonitorDisconnects ==
    /\ tasks["silence_monitor"].pc = "wait"
    /\ ~tasks["silence_monitor"].must_cancel
    /\ clock.timer = 0
    /\ DisconnectStart("silence_monitor",
                       Append(trace.events, <<"silence_monitor", "wait_elapsed">>))
    /\ UNCHANGED <<clock, svars, cvars>>

\* As MonitorCancelled, but the farewell publish and the wait after it
\* cannot be interrupted.
MonitorCancelledAs ==
    /\ tasks["silence_monitor"].pc = "sleep"
    /\ tasks["silence_monitor"].must_cancel
    /\ tasks' = Finished(tasks, "silence_monitor", "cancelled")
    /\ UNCHANGED <<handler, clock, trace, svars, cvars>>

\* CancelledError reaches the monitor at an await of its own loop: except,
\* finally.
MonitorCancelled ==
    /\ tasks["silence_monitor"].pc \in {"sleep", "farewell_tts", "wait"}
    /\ tasks["silence_monitor"].must_cancel
    /\ tasks' = Finished(tasks, "silence_monitor", "cancelled")
    /\ UNCHANGED <<handler, clock, trace, svars, cvars>>

\* A caller runs disconnect().
CallDisconnect ==
    /\ trace.connects > 0
    /\ tasks[Caller].pc \in {"none", "returned"}
    /\ trace.disconnect_calls - trace.monitor_disconnects < MaxDisconnects
    /\ DisconnectStart(Caller, trace.events)
    /\ UNCHANGED <<clock, svars, cvars>>

\* Another task of the application runs disconnect(), once in a
\* connection, whatever the first caller and the monitor are doing.
OtherCallDisconnect ==
    /\ trace.connects > 0
    /\ tasks[OtherCaller].pc = "none"
    /\ DisconnectStart(OtherCaller, trace.events)
    /\ UNCHANGED <<clock, svars, cvars>>

\* As Reconnect, but the welcome flag and the activity time are kept.
ReconnectAs ==
    /\ trace.connects > 0
    /\ trace.connects < MaxConnects
    /\ \A t \in HandlerTasks : tasks[t].pc = "done"
    /\ \A t \in Callers : tasks[t].pc \in {"none", "returned"}
    /\ handler' = [handler EXCEPT !.channel = "set", !.channel_closed = FALSE,
                                  !.event_loop_task = "set",
                                  !.silence_monitor_task = "set"]
    /\ clock' = [clock EXCEPT !.timer = 0]
    /\ tasks' = [t \in HandlerTasks \cup Callers |->
                    IF t \in HandlerTasks THEN [NoTask EXCEPT !.pc = "start"] ELSE NoTask]
    /\ trace' = [NoTrace EXCEPT !.connects = trace.connects + 1]
    /\ UNCHANGED <<svars, cvars>>

\* connect() on a handler whose connection before is over: its two tasks
\* have finished and no disconnect() is under way.  The welcome flag and
\* the activity time are reset, a new channel and two new tasks are made;
\* what was observed of the connection before is put aside.
Reconnect ==
    /\ trace.connects > 0
    /\ trace.connects < MaxConnects
    /\ \A t \in HandlerTasks : tasks[t].pc = "done"
    /\ \A t \in Callers : tasks[t].pc \in {"none", "returned"}
    /\ handler' = [handler EXCEPT !.channel = "set", !.channel_closed = FALSE,
                                  !.event_loop_task = "set",
                                  !.silence_monitor_task = "set",
                                  !.welcome_message_played = FALSE]
    /\ clock' = NoClock
    /\ tasks' = [t \in HandlerTasks \cup Callers |->
                    IF t \in HandlerTasks THEN [NoTask EXCEPT !.pc = "start"] ELSE NoTask]
    /\ trace' = [NoTrace EXCEPT !.connects = trace.connects + 1]
    /\ UNCHANGED <<svars, cvars>>

\* As DisconnectResumes, but a task that awaits itself waits for ever.
DisconnectResumesAs(t) ==
    /\ tasks[t].pc = "disc_await"
    /\ Head(tasks[t].to_cancel) # t
    /\ Done(tasks, Head(tasks[t].to_cancel))
    /\ DisconnectFrom(t, Tail(tasks[t].to_cancel), handler,
                      [tasks EXCEPT ![t].must_cancel = FALSE], trace.events)
    /\ UNCHANGED <<clock, svars, cvars>>

\* "await task" inside disconnect() comes back to t: the awaited task has
\* finished, or CancelledError (a task that awaits itself is handed
\* RuntimeError, which its own cancel() has turned into CancelledError) is
\* raised there and caught by the except clauses of the loop.  The loop
\* goes on with the next task.
DisconnectResumes(t) ==
    /\ tasks[t].pc = "disc_await"
    /\ \/ tasks[t].must_cancel
       \/ Head(tasks[t].to_cancel) = t
       \/ Done(tasks, Head(tasks[t].to_cancel))
    /\ DisconnectFrom(t, Tail(tasks[t].to_cancel), handler,
                      [tasks EXCEPT ![t].must_cancel = FALSE], trace.events)
    /\ UNCHANGED <<clock, svars, cvars>>

\* t has a step the event loop runs without waiting for anything: its first
\* step, a sleep that is over, a CancelledError to raise, an awaited task
\* that has finished.
Ready(t) ==
    \/ tasks[t].pc = "start"
    \/ tasks[t].pc \in {"sleep", "wait"} /\ clock.timer = 0
    \/ tasks[t].pc \notin {"none", "done", "returned"} /\ tasks[t].must_cancel
    \/ tasks[t].pc = "disc_await" /\ (Head(tasks[t].to_cancel) = t
                                       \/ Done(tasks, Head(tasks[t].to_cancel)))

\* A second passes.  The steps that are ready are run first: they take no
\* time at the scale of seconds.
Tick ==
    /\ \E t \in HandlerTasks : tasks[t].pc \notin {"none", "done"}
    /\ \A t \in HandlerTasks \cup Callers : ~Ready(t)
    /\ clock' = [idle |-> IF clock.idle < 0 \/ clock.idle = IdleCap
                          THEN clock.idle ELSE clock.idle + 1,
                 timer |-> IF tasks["silence_monitor"].pc \in {"sleep", "wait"}
                           THEN clock.timer - 1 ELSE clock.timer]
    /\ UNCHANGED <<handler, tasks, trace, svars, cvars>>

(***************************************************************************)
(* run_cli_conversation_loop: the caller of the reply service              *)
(*                                                                         *)
(* A reply text is a sequence of tokens: a control marker, a whitespace    *)
(* character, or any other character.  str.startswith(marker) is "the      *)
(* first token is the marker".                                             *)
(***************************************************************************)
HANDOFF == "[HANDOFF]"
CLARIFY == "[CLARIFY]"
Tokens == {HANDOFF, CLARIFY, " ", "x"}

\* The reply texts of at most n tokens.
Texts(n) == UNION {[1..k -> Tokens] : k \in 0..n}

\* The directive the if/elif/else of the loop resolves a reply text to:
\* startswith("[HANDOFF]") is tried first, then startswith("[CLARIFY]").
Resolve(text) ==
    IF text # <<>> /\ Head(text) = HANDOFF THEN "Handoff"
    ELSE IF text # <<>> /\ Head(text) = CLARIFY THEN "ClarifyRequest"
    ELSE "Answer"

\* The src loop is entered from main_async_logic (agent.py line 275), a
\* coroutine that asyncio.run is running (line 448), and asks for the reply
\* with "asyncio.run(agent_service_instance.get_reply(...))": asyncio.run
\* raises RuntimeError when a loop is running in the thread, before the
\* coroutine is started.  The artex_agent loop calls the synchronous
\* generate_response.
RunsNested(v) == v = "src"

\* What the call hands back and what the loop unpacks it into.  The src
\* loop writes "text, conv_id, _ = asyncio.run(get_reply(...))" and
\* AgentService.get_reply returns (text, conversation_id, history, usage);
\* the artex_agent loop calls generate_response, which returns one str.
ReturnedValues(v) == IF v = "src" THEN 4 ELSE 1
UnpackTargets(v) == IF v = "src" THEN 3 ELSE 1
\* ValueError (too many values to unpack) at the assignment.
UnpackRaises(v) == ReturnedValues(v) # UnpackTargets(v)

\* What a reply request says about the conversation: the src loop passes
\* conversation_id=cli_conversation_id, generate_response takes a prompt and
\* nothing else.
NoConversation == "absent"
PassedId(v, c) == IF v = "src" THEN c.conversation_id ELSE NoConversation

\* pc: "input" (waiting for the user's turn), "reply" (the first request of
\* the turn is out), "clarification" (waiting for the user's precision),
\* "reply_again" (the resubmission is out), "ended" (the loop was left).
\* text: the last reply handed back.  resolved: the directives the loop
\* resolved that reply to.  calls: the reply requests issued for the user's
\* current turn.  end: how the loop was left.  conversation_id: the global
\* cli_conversation_id.  passed: what the last request said about the
\* conversation.  asked: the precisions the user was asked for in this
\* turn.  said: the fixed message emitted since the last reply.
NoCli ==
    [pc |-> "input", text |-> <<>>, resolved |-> <<>>, calls |-> 0, end |-> "-",
     conversation_id |-> NoConv, passed |-> "-", asked |-> 0, said |-> "-"]

\* The user types a request, or exit/quit.
CliInput ==
    /\ cli.pc = "input"
    /\ \E quits \in BOOLEAN :
         cli' = IF quits THEN [cli EXCEPT !.pc = "ended", !.end = "exit"]
                ELSE [cli EXCEPT !.pc = "reply", !.calls = 0, !.resolved = <<>>,
                                 !.text = <<>>, !.asked = 0,
                                 !.passed = PassedId(variant, cli)]
    /\ UNCHANGED <<svars, hvars>>

\* As Directed, but a hand-off answer to the resubmitted turn is shown like
\* a plain answer.
DirectedAs(c, text, again) ==
    LET d == Resolve(text)
        r == [c EXCEPT !.text = text, !.resolved = <<d>>, !.calls = @ + 1, !.said = "-"]
    IN  IF d = "Handoff" /\ ~again THEN [r EXCEPT !.pc = "ended", !.end = "handoff"]
        ELSE IF d = "ClarifyRequest"
        THEN IF again
             THEN [r EXCEPT !.pc = "ended", !.end = "clarify_handoff"]
             ELSE [r EXCEPT !.pc = "clarification"]
        ELSE [r EXCEPT !.pc = "input"]

\* The loop after a reply that unpacked: one branch of the if/elif/else.
\* again: the reply is the one to the resubmitted turn.
Directed(c, text, again) ==
    LET d == Resolve(text)
        r == [c EXCEPT !.text = text, !.resolved = <<d>>, !.calls = @ + 1, !.said = "-"]
    IN  IF d = "Handoff" THEN [r EXCEPT !.pc = "ended", !.end = "handoff"]
        ELSE IF d = "ClarifyRequest"
        THEN IF again
             THEN [r EXCEPT !.pc = "ended", !.end = "clarify_handoff"]
             ELSE [r EXCEPT !.pc = "clarification"]
        ELSE [r EXCEPT !.pc = "input"]

\* The call raised at the unpacking: the loop is left by the exception.
Unpacked(c, text) ==
    [c EXCEPT !.text = text, !.resolved = <<>>, !.calls = @ + 1, !.said = "-",
              !.pc = "ended", !.end = "ValueError"]

\* asyncio.run refused to run: the loop is left by the exception, no reply
\* was obtained.
Refused(c) ==
    [c EXCEPT !.resolved = <<>>, !.calls = @ + 1, !.said = "-",
              !.pc = "ended", !.end = "RuntimeError"]

\* The reply statement of the loop, handed text when it gets that far.
Replying(c, text, again) ==
    IF RunsNested(variant) THEN Refused(c)
    ELSE IF UnpackRaises(variant) THEN Unpacked(c, text)
    ELSE Directed(c, text, again)

\* The first reply of the turn comes back.
CliReply ==
    /\ cli.pc = "reply"
    /\ \E text \in Texts(MaxTextLen) : cli' = Replying(cli, text, FALSE)
    /\ UNCHANGED <<svars, hvars>>

\* The user is asked for a precision and gives one, or none: the fixed
\* message is emitted and the loop goes round.
CliClarification ==
    /\ cli.pc = "clarification"
    /\ \E provided \in BOOLEAN :
         cli' = IF provided
                THEN [cli EXCEPT !.pc = "reply_again", !.asked = @ + 1,
                                 !.passed = PassedId(variant, cli)]
                ELSE [cli EXCEPT !.pc = "input", !.asked = @ + 1,
                                 !.said = "pas_de_precision_fournie"]
    /\ UNCHANGED <<svars, hvars>>

\* As CliReplyAgain, but a second request for precision is followed like
\* the first.
CliReplyAgainAs ==
    /\ cli.pc = "reply_again"
    /\ \E text \in Texts(MaxTextLen) : cli' = Replying(cli, text, FALSE)
    /\ UNCHANGED <<svars, hvars>>

\* The reply to the resubmitted turn comes back.
CliReplyAgain ==
    /\ cli.pc = "reply_again"
    /\ \E text \in Texts(MaxTextLen) : cli' = Replying(cli, text, TRUE)
    /\ UNCHANGED <<svars, hvars>>

(***************************************************************************)
(* Specifications                                                          *)
(***************************************************************************)
InitCommon ==
    /\ variant \in Variants
    /\ AsyncSessionFactory \in {"configured", "None"}
    /\ sinistres = {}
    /\ heap = <<>>
    /\ conversation_histories = <<>>
    /\ frame = [p \in Tasks |-> NoFrame]
    /\ exec = [p \in Tasks |-> NoExec]
    /\ last = [p \in Tasks |-> NoLast]
    /\ irregularLeft = MaxIrregular
    /\ handler = NoHandler
    /\ tasks = [t \in HandlerTasks \cup Callers |-> NoTask]
    /\ clock = NoClock
    /\ trace = NoTrace
    /\ cli = NoCli

\* One caller submitting turn after turn on one conversation.
Init ==
    /\ InitCommon
    /\ quota = [p \in Tasks |-> IF p = 1 THEN Unlimited ELSE 0]
    /\ newConvLeft = 1

\* Two callers in any interleaving: task 1 submits MaxConcCalls turns, task 2
\* one.
InitConc ==
    /\ InitCommon
    /\ quota = [p \in Tasks |-> IF p = 1 THEN MaxConcCalls ELSE 1]
    /\ newConvLeft = Cardinality(ConvIds)

Next ==
    \E p \in Tasks :
        \/ Start(p)
        \/ GatewayRetry(p)
        \/ Gen1Return(p)
        \/ ExecEnter(p)
        \/ ExecDetailsReturn(p)
        \/ ExecContratReturn(p)
        \/ ToolReturn(p)
        \/ Gen2Return(p)

Spec == Init /\ [][Next]_vars

SpecConc == InitConc /\ [][Next]_vars

\* One caller submitting MaxTurns turns.
InitTurn ==
    /\ InitCommon
    /\ quota = [p \in Tasks |-> IF p = 1 THEN MaxTurns ELSE 0]
    /\ newConvLeft = 1

SpecTurn == InitTurn /\ [][Next]_vars

\* One caller submitting MaxCalls turns, each with no conversation id, an
\* unknown one or a known one.
InitConversation ==
    /\ InitCommon
    /\ quota = [p \in Tasks |-> IF p = 1 THEN MaxCalls ELSE 0]
    /\ newConvLeft = Cardinality(ConvIds)

SpecConversation == InitConversation /\ [][Next]_vars

\* The history n direct answers to caller 1 have left: n user/model pairs.
RECURSIVE AnsweredTurns(_)
AnsweredTurns(n) ==
    IF n = 0 THEN <<>>
    ELSE AnsweredTurns(n - 1) \o <<UserEntry(1), ModelTextEntry(1, "answer")>>

\* Two callers on one conversation whose stored history has grown to the
\* trim limit: caller 1 submits MaxConcCalls + 1 turns, caller 2 one, in
\* any interleaving.
InitOverlap ==
    /\ variant \in Variants
    /\ AsyncSessionFactory = "configured"
    /\ sinistres = {}
    /\ heap = <<AnsweredTurns(TrimLimit(variant) \div 2)>>
    /\ conversation_histories = [c \in {"conv_a"} |-> 1]
    /\ frame = [p \in Tasks |-> NoFrame]
    /\ exec = [p \in Tasks |-> NoExec]
    /\ last = [p \in Tasks |-> NoLast]
    /\ irregularLeft = MaxIrregular
    /\ handler = NoHandler
    /\ tasks = [t \in HandlerTasks \cup Callers |-> NoTask]
    /\ clock = NoClock
    /\ trace = NoTrace
    /\ cli = NoCli
    /\ quota = [p \in Tasks |-> IF p = 1 THEN MaxConcCalls + 1 ELSE 1]
    /\ newConvLeft = 0

SpecOverlap == InitOverlap /\ [][Next]_vars

\* The dispatcher alone, driven with every tool call of ToolCalls.
Invoke(p) ==
    /\ exec[p].pc = "none"
    /\ \E c \in ToolCalls : exec' = [exec EXCEPT ![p] = [NoExec EXCEPT !.pc = "called", !.call = c]]
    /\ UNCHANGED <<hvars, cvars>>
    /\ UNCHANGED <<variant, AsyncSessionFactory, sinistres, heap, conversation_histories,
                   frame, last, quota, irregularLeft, newConvLeft>>

\* The harness takes the result (or the exception) and forgets the call.
Collect(p) ==
    /\ exec[p].pc \in {"returned", "raised"}
    /\ exec' = [exec EXCEPT ![p] = NoExec]
    /\ UNCHANGED <<hvars, cvars>>
    /\ UNCHANGED <<variant, AsyncSessionFactory, sinistres, heap, conversation_histories,
                   frame, last, quota, irregularLeft, newConvLeft>>

InitTool ==
    /\ InitCommon
    /\ quota = [p \in Tasks |-> 0]
    /\ newConvLeft = 0

NextTool ==
    \/ Invoke(1)
    \/ ExecEnter(1)
    \/ ExecDetailsReturn(1)
    \/ ExecContratReturn(1)
    \/ Collect(1)

SpecTool == InitTool /\ [][NextTool]_vars

\* One handler from its construction on: connect(), the two tasks, the
\* stream's responses, the passing seconds and disconnect() from outside.
InitHandler ==
    /\ InitCommon
    /\ quota = [p \in Tasks |-> 0]
    /\ newConvLeft = 0

NextHandler ==
    \/ Connect
    \/ EventLoopStart
    \/ EventLoopResponse
    \/ EventLoopWelcomed
    \/ EventLoopHeard
    \/ EventLoopCancelled
    \/ MonitorStart
    \/ MonitorWake
    \/ MonitorFarewellDone
    \/ MonitorDisconnects
    \/ MonitorCancelled
    \/ CallDisconnect
    \/ DisconnectResumes("silence_monitor")
    \/ DisconnectResumes(Caller)
    \/ Tick

SpecHandler == InitHandler /\ [][NextHandler]_vars

\* The event loop of asyncio runs every task that is ready, the awaited
\* services (TTS, ASR) return and time passes; what the stream sends and
\* whether anybody calls disconnect() is left open.
HandlerFairness ==
    /\ WF_vars(EventLoopStart)
    /\ WF_vars(EventLoopWelcomed)
    /\ WF_vars(EventLoopHeard)
    /\ WF_vars(EventLoopCancelled)
    /\ WF_vars(MonitorStart)
    /\ WF_vars(MonitorWake)
    /\ WF_vars(MonitorFarewellDone)
    /\ WF_vars(MonitorDisconnects)
    /\ WF_vars(MonitorCancelled)
    /\ WF_vars(DisconnectResumes("silence_monitor"))
    /\ WF_vars(DisconnectResumes(Caller))
    /\ WF_vars(Tick)

SpecHandlerFair == InitHandler /\ [][NextHandler]_vars /\ HandlerFairness

\* One handler over MaxConnects connections, one after the other, with two
\* tasks of the application calling disconnect().  The two copies of the
\* handler behave alike and the handler does not use the database: one
\* copy and one configuration are run.
InitSessions ==
    /\ InitHandler
    /\ variant = "src"
    /\ AsyncSessionFactory = "configured"

NextSessions ==
    \/ NextHandler
    \/ OtherCallDisconnect
    \/ DisconnectResumes(OtherCaller)
    \/ Reconnect

SpecSessions == InitSessions /\ [][NextSessions]_vars

\* The caller loop alone, handed every reply text of Texts(MaxTextLen).
InitCli ==
    /\ InitCommon
    /\ quota = [p \in Tasks |-> 0]
    /\ newConvLeft = 0

NextCli ==
    \/ CliInput
    \/ CliReply
    \/ CliClarification
    \/ CliReplyAgain

SpecCli == InitCli /\ [][NextCli]_vars

(***************************************************************************)
(* Properties                                                              *)
(***************************************************************************)
\* The stored history of conversation c.
Stored(c) == heap[conversation_histories[c]]

\* No get_reply call is in flight on conversation c.
Quiet(c) == \A p \in Tasks : frame[p].pc = "idle" \/ frame[p].conversation_id # c

IsToolRequest(e) == e.role = "model" /\ e.kind = "function_call"
IsToolResult(e) == e.role = "function"

\* C1: once every get_reply call on a conversation has finished (returned or
\* raised), each tool_request entry of its stored history is immediately
\* followed by the tool_result entry of the same tool call.
C1_NoDanglingToolRequest ==
    \A c \in DOMAIN conversation_histories :
        Quiet(c) =>
            \A i \in 1..Len(Stored(c)) :
                IsToolRequest(Stored(c)[i]) =>
                    /\ i < Len(Stored(c))
                    /\ IsToolResult(Stored(c)[i + 1])
                    /\ Stored(c)[i + 1].call = Stored(c)[i].call

\* C2: two get_reply calls for the same conversation id are never in flight
\* together, so the second appends its user turn only after the first has
\* appended its final model turn.
C2_SerializedPerConversation ==
    \A p, q \in Tasks :
        (p # q /\ frame[p].pc # "idle" /\ frame[q].pc # "idle")
            => frame[p].conversation_id # frame[q].conversation_id

\* The user/model turn pairs a history holds: one per user entry.
TurnPairs(h) == Cardinality({i \in 1..Len(h) : h[i].role = "user"})

\* C3: after each get_reply call the stored history holds at most
\* MAX_HISTORY_TURNS_API user/model turn pairs.
C3_HistoryBound ==
    \A c \in DOMAIN conversation_histories :
        Quiet(c) => TurnPairs(Stored(c)) <= MAX_HISTORY_TURNS_API

\* C4: trimming never splits a turn: the stored history never begins with a
\* model turn or a tool_result whose user turn or tool_request was dropped,
\* and every tool_result is preceded by its tool_request.
C4_TrimKeepsTurnsWhole ==
    \A c \in DOMAIN conversation_histories :
        Quiet(c) =>
            /\ Len(Stored(c)) > 0 => Stored(c)[1].role = "user"
            /\ \A i \in 1..Len(Stored(c)) :
                   IsToolResult(Stored(c)[i]) =>
                       i > 1 /\ IsToolRequest(Stored(c)[i - 1])

\* The placeholder texts get_reply substitutes for a missing answer.
Placeholders ==
    {"pas_de_reponse", "agent_action_en_attente", "non_disponible_apres_outil"}

\* C5: a get_reply call whose every gateway response was a bare tool call
\* returns a placeholder text, after exactly one dispatcher call and at most
\* two gateway calls.
C5_OneToolRoundTrip ==
    \A p \in Tasks :
        (last[p].status # "none" /\ last[p].fc_only /\ last[p].dispatch_calls > 0) =>
            /\ last[p].status = "returned"
            /\ last[p].text \in Placeholders
            /\ last[p].dispatch_calls = 1
            /\ last[p].gateway_calls <= 2

\* C6: _execute_function_call never raises.
C6_ExecuteNeverRaises ==
    \A p \in Tasks : exec[p].pc # "raised"

\* The open_claim calls of C7: the three required arguments present, the
\* contract found with a primary policyholder, the date absent or ISO.
ValidOpenClaim(c) ==
    /\ c.name = "open_claim"
    /\ Truthy(c.numero_contrat) /\ Truthy(c.type_sinistre) /\ Truthy(c.description_sinistre)
    /\ ContratUsable(ContratTable(c.numero_contrat))
    /\ (~Truthy(c.date_survenance) \/ FromIsoFormatOk(c.date_survenance))

\* C7: a valid open_claim, run with a session factory in place and no backend
\* call raising, commits exactly one new row, tied to the contract and its
\* primary policyholder, and returns a payload carrying the claim reference.
C7_OpenClaimPersists ==
    \A p \in Tasks :
        (/\ exec[p].pc = "returned" /\ ValidOpenClaim(exec[p].call)
         /\ AsyncSessionFactory = "configured" /\ ~exec[p].backend_raised) =>
            /\ exec[p].response.tag = "payload"
            /\ exec[p].response.msg = "sinistre_enregistre"
            /\ \E row \in sinistres :
                   /\ exec[p].committed = {row}
                   /\ row.claim_id_ref = exec[p].response.about
                   /\ row.id_contrat = ContratTable(exec[p].call.numero_contrat).id_contrat
                   /\ row.id_adherent =
                          ContratTable(exec[p].call.numero_contrat).id_adherent_principal

\* The calls of C8: a required argument missing, or a date that is no ISO date.
InvalidArguments(c) ==
    \/ c.name = "get_contrat_details" /\ ~Truthy(c.numero_contrat)
    \/ /\ c.name = "open_claim"
       /\ \/ ~Truthy(c.numero_contrat) \/ ~Truthy(c.type_sinistre)
          \/ ~Truthy(c.description_sinistre)
          \/ (Truthy(c.date_survenance) /\ ~FromIsoFormatOk(c.date_survenance))

\* C8: on a missing or invalid argument _execute_function_call makes no
\* backend call, and what it returns is an error result.
C8_InvalidArgumentsNoBackend ==
    \A p \in Tasks :
        (exec[p].pc # "none" /\ InvalidArguments(exec[p].call)) =>
            /\ exec[p].backend_calls = 0
            /\ exec[p].pc = "returned" => exec[p].response.tag = "error"

\* C9: when a backend call raised, the unit of work is rolled back, nothing of
\* the invocation is persisted, and the result is the generic internal-error
\* message without the exception's text.
C9_BackendErrorRolledBack ==
    \A p \in Tasks :
        (exec[p].pc = "returned" /\ exec[p].backend_raised) =>
            /\ exec[p].rolled_back /\ exec[p].session = "rolled_back"
            /\ exec[p].pending = {} /\ exec[p].committed = {}
            /\ exec[p].response.tag = "error"
            /\ exec[p].response.msg = "erreur_interne"
            /\ ~exec[p].response.exc_text

C9_Witness ==
    /\ exec[1].pc = "returned" /\ exec[1].backend_raised
    /\ exec[1].call.name = "open_claim"

\* A finished call of a tool outside the catalogue.
UnknownToolDone(p) ==
    exec[p].pc \in {"returned", "raised"} /\ exec[p].call.name \notin Catalogue

\* The result of C10: an error whose message names the tool, no backend call.
NamesUnknownTool(p) ==
    /\ exec[p].pc = "returned"
    /\ exec[p].response.tag = "error"
    /\ exec[p].response.about = exec[p].call.name
    /\ exec[p].backend_calls = 0
    /\ exec[p].committed = {}

C11_OpenClaimAtMostOnce ==
    \A p \in Tasks :
        /\ frame[p].dispatch_calls <= 1
        /\ last[p].dispatch_calls <= 1
        /\ Cardinality(exec[p].pending) <= 1
        /\ Cardinality(exec[p].committed) <= 1

\* A get_reply call that retried a gateway attempt, dispatched open_claim and
\* got a second function call in the resumed response has returned.
C11_Witness ==
    /\ last[1].status = "returned" /\ last[1].tool = "open_claim"
    /\ last[1].retried /\ last[1].text = "agent_action_en_attente"
    /\ last[1].dispatch_calls = 1 /\ last[1].gateway_calls = 2

\* The session counts as connected while _is_disconnected_event is clear.
Connected == trace.connects > 0 /\ ~handler.is_disconnected_event

\* The monitor went the whole timeout path: farewell, wait, disconnect().
TimedOut == tasks["silence_monitor"].end = "timeout"

\* C12: in a connected session an idle period longer than
\* USER_SILENCE_HANGUP_SECONDS makes the monitor publish the farewell, and
\* per connection the farewell is published at most once, the monitor
\* disconnects at most once and the channel is closed at most once, also
\* when disconnect() is called from outside; a monitor that went the
\* timeout path published one farewell and left the channel closed once.
C12_IdleTimeoutOnce ==
    /\ trace.farewell_calls <= 1
    /\ trace.monitor_disconnects <= 1
    /\ trace.closes <= 1
    /\ (Connected /\ handler.welcome_message_played /\ clock.idle = IdleCap)
          => trace.farewell_calls = 1
    /\ TimedOut => /\ trace.farewell_calls = 1
                   /\ trace.monitor_disconnects = 1
                   /\ trace.closes = 1
                   /\ handler.channel = "None" /\ handler.channel_closed

\* The monitor timed out and was inside its disconnect() when disconnect()
\* was called from outside as well; both calls have come to their end.
C12_Witness ==
    /\ TimedOut
    /\ tasks[Caller].pc = "returned"
    /\ \E i \in 1..Len(trace.events) : trace.events[i] = <<Caller, "loop_cancelled">>
    /\ trace.disconnect_calls = 2
    /\ trace.closes = 1 /\ trace.farewell_calls = 1

\* Both tasks have finished, the channel is closed and cleared.
Terminated ==
    /\ Done(tasks, "event_loop") /\ Done(tasks, "silence_monitor")
    /\ handler.channel = "None" /\ handler.channel_closed

\* The welcome was played, nothing was heard for the timeout and one poll
\* interval, the session is connected and the monitor's poll is served.
SilentSession ==
    /\ Connected /\ handler.welcome_message_played
    /\ clock.idle >= USER_SILENCE_HANGUP_SECONDS + SILENCE_MONITOR_INTERVAL
    /\ ~Ready("silence_monitor")

\* C13: with a timeout of 30 s and a poll every 5 s, a connected session
\* whose welcome was played and that heard nothing for 35 s has published
\* its one farewell and goes on to Terminated: both tasks finished, the
\* channel closed and cleared, although disconnect() runs inside the
\* monitor task it cancels and awaits.
C13_SilenceTerminates ==
    /\ [](SilentSession => trace.farewell_calls = 1)
    /\ SilentSession ~> (Terminated /\ trace.farewell_calls = 1)

\* The session ended on the monitor's own disconnect(), nobody else having
\* called it: the monitor cancelled the event loop and closed the channel.
C13_Witness ==
    /\ Terminated /\ TimedOut
    /\ tasks[Caller].pc = "none"
    /\ tasks["event_loop"].end = "cancelled"
    /\ trace.farewell_calls = 1 /\ trace.closes = 1
    /\ trace.running_at_close = {"silence_monitor"}

\* The place of the monitor's event what in the log, 0 when it is not there.
At(what) ==
    LET I == {i \in 1..Len(trace.events) : trace.events[i] = <<"silence_monitor", what>>}
    IN  IF I = {} THEN 0 ELSE CHOOSE i \in I : \A j \in I : i <= j

C15_ClosedAfterBothTasks ==
    trace.running_at_close = {}

\* C16: neither task stops because the other one ended: a task that has
\* left its loop on finding _is_disconnected_event set did so after a
\* disconnect() had been called.
C16_NoImplicitStop ==
    \A t \in HandlerTasks :
        (Done(tasks, t) /\ tasks[t].end = "event") => trace.disconnect_calls > 0

\* C17: a disconnect() called from outside, at whatever point of the
\* monitor's run, comes back, and when it has come back the monitor task
\* and the event-loop task have ended and the channel is closed.
C17_DisconnectCompletes ==
    /\ [](tasks[Caller].pc = "returned" => Terminated)
    /\ (tasks[Caller].pc = "disc_await") ~> (tasks[Caller].pc = "returned")

\* disconnect() was called while the monitor was awaiting its farewell
\* publish; the monitor was cancelled there and the call has returned.
C17_Witness ==
    /\ tasks[Caller].pc = "returned" /\ Terminated
    /\ tasks["silence_monitor"].end = "cancelled"
    /\ trace.farewell_calls = 1 /\ At("farewell_done") = 0

\* A reply has come back and the loop has dealt with it.
Replied == cli.calls > 0

\* The text without its leading whitespace.
RECURSIVE Trimmed(_)
Trimmed(text) ==
    IF text # <<>> /\ Head(text) = " " THEN Trimmed(Tail(text)) ELSE text

\* The directive a text stands for: hand-off before clarify, a marker
\* counting when it is a prefix of the trimmed text.
DirectiveOf(text) ==
    LET t == Trimmed(text)
    IN  IF t # <<>> /\ Head(t) = HANDOFF THEN "Handoff"
        ELSE IF t # <<>> /\ Head(t) = CLARIFY THEN "ClarifyRequest"
        ELSE "Answer"

\* C18: every reply the caller is handed is resolved to exactly one
\* directive, and a reply that begins with the hand-off marker followed at
\* once by the clarify marker is resolved to Handoff.
C18_HandoffBeforeClarify ==
    Replied =>
        /\ Len(cli.resolved) = 1
        /\ (Len(cli.text) >= 2 /\ cli.text[1] = HANDOFF /\ cli.text[2] = CLARIFY)
              => cli.resolved = <<"Handoff">>

\* C19: the directive the caller resolves a reply to is the one of the
\* trimmed text: whitespace before a marker does not hide it, a marker
\* after other characters does not count.
C19_MarkerPrefixOfTrimmedText ==
    (Replied /\ Len(cli.resolved) = 1) => cli.resolved[1] = DirectiveOf(cli.text)

\* C20: for one turn of the user the caller makes at most two reply calls,
\* and when the reply to the resubmitted turn asks for a precision again
\* the caller ends the conversation as a hand-off.
C20_OneResubmission ==
    /\ cli.calls <= 2
    /\ cli.pc = "reply_again" => cli.calls = 1
    /\ (cli.calls = 2 /\ cli.resolved = <<"ClarifyRequest">>)
          => cli.pc = "ended" /\ cli.end = "clarify_handoff"

\* The resubmitted turn was answered by a second request for precision and
\* the loop was left.
C20_Witness ==
    /\ cli.calls = 2 /\ cli.pc = "ended" /\ cli.end = "clarify_handoff"
    /\ cli.text # <<>> /\ Head(cli.text) = CLARIFY

\* C21: on a ClarifyRequest the caller asks the user for one more input,
\* once, and the resubmission it then makes names the conversation the
\* clarify response belongs to, the id the caller holds.
C21_ResubmitsOnSameConversation ==
    /\ cli.asked <= 1
    /\ cli.pc = "reply_again" =>
         /\ cli.asked = 1
         /\ cli.passed \in ConvIds
         /\ cli.passed = cli.conversation_id

\* C22: when no precision is obtained the caller emits the fixed message
\* without a reply request for it and stays in the loop, and the request
\* for the user's next turn names the same conversation.
C22_NoClarificationKeepsConversation ==
    /\ (cli.said = "pas_de_precision_fournie" /\ cli.pc = "input") => cli.calls = 1
    /\ cli.said = "pas_de_precision_fournie" => cli.pc \in {"input", "reply"}
    /\ (cli.said = "pas_de_precision_fournie" /\ cli.pc = "reply") =>
         /\ cli.passed \in ConvIds
         /\ cli.passed = cli.conversation_id

\* C23: a reply that starts with the hand-off marker, be it the first
\* answer or the answer to the resubmitted turn, ends the caller loop: the
\* loop is left and no reply request follows.
C23_HandoffEndsConversation ==
    (Replied /\ cli.text # <<>> /\ Head(cli.text) = HANDOFF) =>
        /\ cli.pc = "ended"
        /\ cli.end = "handoff"

\* The answer to the resubmitted turn was a hand-off and the loop was left.
C23_Witness ==
    /\ cli.calls = 2 /\ cli.asked = 1
    /\ cli.text # <<>> /\ Head(cli.text) = HANDOFF
    /\ cli.pc = "ended" /\ cli.end = "handoff"

\* The history stored for the conversation of p's last finished call.
StoredOfLast(p) == heap[conversation_histories[last[p].conversation_id]]

\* C24: when every attempt of the gateway call fails, get_reply returns the
\* fixed unavailability text instead of raising, the conversation stays
\* known, and its history ends with the failed turn's model entry.
C24_ExhaustionAnswered ==
    \A p \in Tasks :
        (last[p].exhausted /\ frame[p].pc = "idle") =>
            /\ last[p].status = "returned"
            /\ last[p].text = "erreur_technique"
            /\ last[p].conversation_id \in DOMAIN conversation_histories
            /\ LET h == StoredOfLast(p)
               IN  /\ Len(h) >= 2
                   /\ h[Len(h)] = ModelTextEntry(p, "erreur_technique")

\* C25: whatever the gateway and the backend do, no get_reply call ends by
\* an exception: the caller always obtains a text, and it is not empty.
C25_AlwaysAText ==
    \A p \in Tasks :
        /\ last[p].status # "raised"
        /\ last[p].status = "returned" => last[p].text \notin {"", "-"}

RECURSIVE Pow2(_)
Pow2(k) == IF k = 0 THEN 1 ELSE 2 * Pow2(k - 1)

\* The waits claimed: min(MAX_BACKOFF_SECONDS, INITIAL_BACKOFF_SECONDS * 2^k)
\* after failure k = 0, 1, 2.
WaitsAsClaimed(slept) ==
    /\ Len(slept) <= MAX_RETRIES
    /\ \A k \in 1..Len(slept) :
         /\ slept[k] = Min(MAX_BACKOFF_SECONDS, INITIAL_BACKOFF_SECONDS * Pow2(k - 1))
         /\ slept[k] <= 16

\* C26: one generate_text_response call makes at most MAX_RETRIES attempts
\* and returns at the first that succeeds; it waits 1, 2 and 4 seconds after
\* its failures, never more than 16, and after the third failure the
\* terminal error is what the call ends with.
C26_BoundedRetriesWithBackoff ==
    \A p \in Tasks :
        /\ frame[p].pc \in {"gen1", "gen2"} =>
             /\ frame[p].current_retry <= MAX_RETRIES
             /\ Len(frame[p].slept) = frame[p].current_retry
             /\ WaitsAsClaimed(frame[p].slept)
        /\ last[p].attempts > 0 =>
             /\ last[p].attempts <= MAX_RETRIES
             /\ WaitsAsClaimed(last[p].slept)
             /\ IF last[p].exhausted
                THEN /\ Len(last[p].slept) = MAX_RETRIES
                     /\ \/ last[p].status = "raised"
                        \/ last[p].text = "erreur_technique"
                ELSE Len(last[p].slept) = last[p].attempts - 1

\* A call whose three attempts all failed, after waits of 1, 2 and 4 seconds.
C26_Witness ==
    \E p \in Tasks :
        /\ last[p].exhausted
        /\ last[p].attempts = 3
        /\ last[p].slept = <<1, 2, 4>>

\* A call that returned at its third attempt.
C26_WitnessThirdAttempt ==
    \E p \in Tasks :
        /\ ~last[p].exhausted
        /\ last[p].attempts = 3
        /\ last[p].slept = <<1, 2>>
        /\ last[p].text = "answer"

\* h is before, then the user entry of p's turn, then entries of that turn
\* only.
ExtendsByOneTurn(h, before, p) ==
    /\ Len(h) > Len(before)
    /\ SubSeq(h, 1, Len(before)) = before
    /\ h[Len(before) + 1] = UserEntry(p)
    /\ \A i \in (Len(before) + 2)..Len(h) : h[i].role # "user" /\ h[i].by = p

\* C27: a call given no conversation id, or one that is not known, works
\* under a newly minted id whose stored history holds that turn's entries
\* only; a call given a known id works under that id, and the stored
\* history is the one found there, extended by the turn.
C27_ConversationIdentity ==
    \A p \in Tasks :
        (last[p].status # "none" /\ frame[p].pc = "idle") =>
            /\ last[p].conversation_id \in DOMAIN conversation_histories
            /\ IF last[p].given \in last[p].known_ids
               THEN /\ last[p].conversation_id = last[p].given
                    /\ ExtendsByOneTurn(StoredOfLast(p), last[p].stored, p)
               ELSE /\ last[p].conversation_id \notin last[p].known_ids
                    /\ last[p].conversation_id # last[p].given
                    /\ last[p].conversation_id \in ConvIds
                    /\ ExtendsByOneTurn(StoredOfLast(p), <<>>, p)

IsModelText(e) == e.role = "model" /\ e.kind = "text"

\* h is a sequence of turn groups: a user entry, at most one adjacent pair
\* of tool request and tool result, one model text entry.
RECURSIVE TurnGroups(_)
TurnGroups(h) ==
    IF h = <<>> THEN TRUE
    ELSE IF Len(h) >= 2 /\ h[1].role = "user" /\ IsModelText(h[2])
    THEN TurnGroups(SubSeq(h, 3, Len(h)))
    ELSE IF /\ Len(h) >= 4
            /\ h[1].role = "user"
            /\ h[2].role = "model" /\ h[2].kind = "function_call"
            /\ h[3].kind = "function_response" /\ h[3].call = h[2].call
            /\ IsModelText(h[4])
    THEN TurnGroups(SubSeq(h, 5, Len(h)))
    ELSE FALSE

\* C28: whenever no get_reply call is in progress on a conversation, its
\* stored history is a sequence of turn groups, however the calls on it
\* ended.
C28_HistoryOfTurnGroups ==
    \A c \in DOMAIN conversation_histories :
        (\A p \in Tasks : frame[p].pc # "idle" => frame[p].conversation_id # c) =>
            TurnGroups(heap[conversation_histories[c]])

RECURSIVE UsageSum(_)
\* The component-wise sum of the usage fragments of the responses metas.
UsageSum(metas) ==
    IF metas = <<>> THEN NoUsage
    ELSE Accumulate(UsageSum(SubSeq(metas, 1, Len(metas) - 1)),
                    extract_usage_metadata(metas[Len(metas)]))

\* C29: a get_reply call hands back a usage that is the sum of one fragment
\* per gateway call it made: one for a direct answer, two when it ran a
\* tool.  Stated of the copy that returns a usage, and of the calls whose
\* gateway attempts were not all failures.
C29_UsageSumsGatewayCalls ==
    \A p \in Tasks :
        (variant = "src" /\ last[p].status # "none" /\ ~last[p].exhausted) =>
            /\ last[p].usage_returned
            /\ last[p].gateway_calls = 1 + last[p].dispatch_calls
            /\ Len(last[p].metas) = last[p].gateway_calls
            /\ last[p].usage = UsageSum(last[p].metas)

\* The texts get_reply substitutes for a response without text.
Sentinels ==
    {"pas_de_reponse", "pas_de_reponse_textuelle", "erreur_communication",
     "agent_action_en_attente", "non_disponible_apres_outil",
     "erreur_communication_apres_outil"}

\* C30: the text a get_reply call returns is never empty, and it is the
\* content of the model entry the call appended last, which is the last
\* entry of the stored history; a response without text gives a sentinel.
C30_ReturnedTextIsLastModelTurn ==
    \A p \in Tasks :
        (last[p].status = "returned" /\ frame[p].pc = "idle") =>
            /\ last[p].text \notin {"", "-"}
            /\ last[p].text \in Sentinels \cup {"answer", "erreur_technique"}
            /\ LET h == StoredOfLast(p)
               IN  /\ h # <<>>
                   /\ h[Len(h)] = ModelTextEntry(p, last[p].text)

\* A direct response without text was answered with the sentinel.
C30_Witness ==
    \E p \in Tasks :
        /\ last[p].status = "returned" /\ frame[p].pc = "idle"
        /\ last[p].text \in {"pas_de_reponse", "pas_de_reponse_textuelle"}
        /\ last[p].dispatch_calls = 0
        /\ LET h == StoredOfLast(p)
           IN  h[Len(h)] = ModelTextEntry(p, last[p].text)

\* A response without text after the tool result was answered with the
\* sentinel.
C30_WitnessAfterTool ==
    \E p \in Tasks :
        /\ last[p].status = "returned" /\ frame[p].pc = "idle"
        /\ last[p].text = "non_disponible_apres_outil"
        /\ last[p].dispatch_calls = 1

\* transcribe_audio_frames has just come back to _event_loop.
HeardStep == tasks["event_loop"].pc = "asr" /\ tasks'["event_loop"].pc = "stream"

\* C31: a transcription that is not empty and not an "[ASR_" signal sets
\* the last-activity time to now; an empty or failed one leaves it as it
\* is; within one connection the last-activity time, once set, stays set
\* and never moves back: the idle time grows only as time passes.
C31_ActivityRefreshedByInputOnly ==
    [][/\ (HeardStep /\ IsUserInput(trace'.transcribed_text)) => clock'.idle = 0
       /\ (HeardStep /\ ~IsUserInput(trace'.transcribed_text)) => clock'.idle = clock.idle
       /\ trace'.connects = trace.connects =>
            /\ clock.idle >= 0 => clock'.idle >= 0
            /\ clock'.idle > clock.idle =>
                 \/ clock.idle < 0 /\ clock'.idle = 0
                 \/ /\ clock'.idle = clock.idle + 1
                    /\ tasks' = tasks /\ handler' = handler /\ trace' = trace
      ]_vars

\* A transcription has just refreshed the last-activity time.
C31_Witness ==
    /\ trace.transcribed_text = "bonjour"
    /\ tasks["event_loop"].pc = "stream"
    /\ handler.welcome_message_played
    /\ clock.idle = 0

\* A signal was received and the idle time of before runs on.
C31_WitnessSignal ==
    /\ trace.transcribed_text \in AsrSignals
    /\ tasks["event_loop"].pc = "stream"
    /\ clock.idle > SILENCE_MONITOR_INTERVAL

\* The monitor's sleep of SILENCE_MONITOR_INTERVAL has just ended: a poll.
PollStep ==
    /\ tasks["silence_monitor"].pc = "sleep"
    /\ ~tasks["silence_monitor"].must_cancel
    /\ clock.timer = 0
    /\ tasks'[Caller] = tasks[Caller]
    /\ tasks'["silence_monitor"].pc # "sleep" \/ clock'.timer = SILENCE_MONITOR_INTERVAL

\* C32: the monitor turns to the farewell only at a poll at which the idle
\* time is strictly greater than USER_SILENCE_HANGUP_SECONDS, and it starts
\* its disconnect only after such a poll; a poll at which the idle time is
\* at most that sends no farewell and starts no disconnect.
C32_TimeoutStrictlyAfterThreshold ==
    [][/\ (PollStep /\ clock.idle <= USER_SILENCE_HANGUP_SECONDS) =>
            /\ tasks'["silence_monitor"].pc \in {"sleep", "done"}
            /\ trace'.farewell_calls = trace.farewell_calls
            /\ trace'.disconnect_calls = trace.disconnect_calls
       /\ trace'.farewell_calls # trace.farewell_calls =>
            /\ PollStep
            /\ clock.idle > USER_SILENCE_HANGUP_SECONDS
            /\ tasks'["silence_monitor"].pc = "farewell_tts"
       /\ trace'.monitor_disconnects # trace.monitor_disconnects =>
            /\ tasks["silence_monitor"].pc = "wait"
            /\ trace.farewell_calls > 0
      ]_vars

\* A poll at an idle time of exactly the threshold has passed and the
\* monitor sleeps again.
C32_Witness ==
    /\ tasks["silence_monitor"].pc = "sleep"
    /\ clock.timer = SILENCE_MONITOR_INTERVAL
    /\ clock.idle = USER_SILENCE_HANGUP_SECONDS
    /\ trace.farewell_calls = 0
    /\ trace.disconnect_calls = 0

\* A poll past the threshold has sent the monitor to its farewell.
C32_WitnessTimeout ==
    /\ tasks["silence_monitor"].pc = "farewell_tts"
    /\ clock.idle > USER_SILENCE_HANGUP_SECONDS
    /\ trace.farewell_calls = 1

\* The invocation of p has ended by a successful open_claim.
OpenClaimSucceeded(e) ==
    /\ e.pc = "returned"
    /\ ValidOpenClaim(e.call)
    /\ e.response.tag = "payload" /\ e.response.msg = "sinistre_enregistre"

\* C33: the persisted data change only by the commit of a successful
\* open_claim, and then by the rows of that invocation; every other
\* invocation leaves them as they are.  Each invocation opens the session it
\* works in and leaves it closed or rolled back, with nothing pending.
C33_OnlyOpenClaimPersists ==
    /\ [][sinistres' # sinistres =>
            \E p \in Tasks :
                /\ exec[p].pc = "await_contrat"
                /\ OpenClaimSucceeded(exec'[p])
                /\ sinistres' = sinistres \cup exec'[p].committed
         ]_vars
    /\ [](\A p \in Tasks :
            /\ exec[p].pc \in {"none", "called"} => exec[p].session = "none"
            /\ exec[p].pc \in {"await_details", "await_contrat"} => exec[p].session = "open"
            /\ exec[p].pc \in {"returned", "raised"} =>
                 /\ exec[p].session \in {"none", "closed", "rolled_back"}
                 /\ exec[p].pending = {}
                 /\ ~OpenClaimSucceeded(exec[p]) => exec[p].committed = {})

\* An open_claim with a date that is no ISO date has returned its error;
\* nothing is persisted and its session is closed.
C33_Witness ==
    /\ exec[1].pc = "returned"
    /\ exec[1].call.name = "open_claim"
    /\ exec[1].response.msg = "date_invalide"
    /\ exec[1].session = "closed"
    /\ sinistres = {}

\* A get_contrat_details whose backend read raised has returned.
C33_WitnessBackendError ==
    /\ exec[1].pc = "returned"
    /\ exec[1].call.name = "get_contrat_details"
    /\ exec[1].backend_raised
    /\ exec[1].session = "rolled_back"
    /\ sinistres = {}

\* new is old with entries dropped from its oldest end and at most one
\* entry appended.
TrimmedAndAppended(old, new) ==
    \E d \in 0..Len(old) :
        /\ Len(new) - (Len(old) - d) \in {0, 1}
        /\ SubSeq(new, 1, Len(old) - d) = SubSeq(old, d + 1, Len(old))

\* C34: whatever calls overlap on a conversation, each step changes its
\* stored history only by appending an entry and by dropping entries from
\* its oldest end: no stored entry that is not among the oldest dropped
\* ones disappears when the stored list is replaced.
C34_ReplacementKeepsTurns ==
    [][\A c \in DOMAIN conversation_histories :
          c \in DOMAIN conversation_histories' =>
              TrimmedAndAppended(heap[conversation_histories[c]],
                                 heap'[conversation_histories'[c]])
      ]_vars

\* A call for conversation c is at work in this step: one in flight on c,
\* or one that begins with c as its argument.
CallFor(c) ==
    \E p \in Tasks :
        \/ frame[p].pc # "idle" /\ frame[p].conversation_id = c
        \/ frame[p].pc = "idle" /\ frame'[p].pc # "idle" /\ frame'[p].given = c

\* C35: a step of a get_reply call changes the stored history of no
\* conversation but its own; a call that mints an id leaves every stored
\* conversation there, with the history it had.
C35_OtherConversationsUntouched ==
    [][\A c \in DOMAIN conversation_histories :
          ~CallFor(c) =>
              /\ c \in DOMAIN conversation_histories'
              /\ heap'[conversation_histories'[c]] = heap[conversation_histories[c]]
      ]_vars

\* C36: when the monitor performs its timeout disconnect the session is
\* still idle: no user activity has been recorded since the poll that
\* decided on it.
C36_DisconnectOnlyWhileIdle ==
    [][trace'.monitor_disconnects # trace.monitor_disconnects =>
           clock.idle > USER_SILENCE_HANGUP_SECONDS
      ]_vars

\* True of a step in which some task enters disconnect().
DisconnectCalled == trace'.disconnect_calls = trace.disconnect_calls + 1

\* The handler as a completed disconnect() leaves it.
Disconnected(h) ==
    /\ h.channel = "None"
    /\ h.event_loop_task = "None"
    /\ h.silence_monitor_task = "None"

\* C37: in one connection the channel is closed at most once, however many
\* disconnect() calls the two callers and the monitor make and however
\* they overlap; a disconnect() entered on a handler that is already
\* disconnected closes nothing and cancels nothing.
C37_ChannelClosedOncePerConnect ==
    /\ [](trace.closes <= 1)
    /\ [][DisconnectCalled /\ Disconnected(handler)
            => /\ trace'.closes = trace.closes
               /\ \A t \in HandlerTasks : tasks'[t] = tasks[t]
               /\ handler'.channel = "None"]_vars

\* Both callers have been through disconnect() in the second connection of
\* the handler, the second of them while the first was suspended in it, and
\* the channel was closed once.
C37_Witness ==
    /\ trace.connects = 2
    /\ trace.closes = 1
    /\ tasks[Caller].pc = "returned"
    /\ tasks[OtherCaller].pc = "disc_await"

\* The monitor's own disconnect() and a caller's overlap, and the channel
\* was closed once.
C37_WitnessMonitor ==
    /\ trace.monitor_disconnects = 1
    /\ trace.disconnect_calls >= 2
    /\ trace.closes = 1
    /\ tasks[Caller].pc = "returned"
    /\ tasks["silence_monitor"].end = "timeout"

\* A caller has been through disconnect() on a handler already
\* disconnected.
C37_WitnessAgain ==
    /\ trace.closes = 1
    /\ trace.disconnect_calls - trace.monitor_disconnects = 2
    /\ tasks[Caller].pc = "returned"
    /\ tasks[OtherCaller].pc = "returned"
    /\ Disconnected(handler)
\* The event-loop task has ended without having been cancelled: the stream
\* failed, ended or sent leave, or an exception came up in the loop.
EndedOnItsOwn ==
    /\ Done(tasks, "event_loop")
    /\ tasks["event_loop"].end = "server"

\* C38: once the event-loop task has ended on its own, the session comes,
\* whether or not anybody calls disconnect(), to where the monitor has
\* stopped and the channel has been closed and cleared.
C38_OwnEndReleasesSession ==
    EndedOnItsOwn ~> /\ Done(tasks, "silence_monitor")
                     /\ handler.channel = "None"
                     /\ handler.channel_closed
\* True of a step in which the monitor has the farewell published or
\* enters disconnect().
MonitorActs ==
    \/ trace'.farewell_calls > trace.farewell_calls
    \/ trace'.monitor_disconnects > trace.monitor_disconnects

\* True of a step that keeps to the order of welcome, activity time and
\* monitor.
WelcomeOrder ==
    /\ (~handler.welcome_message_played /\ handler'.welcome_message_played)
        => (trace.welcome_calls = 1 /\ clock'.idle = 0)
    /\ MonitorActs => (handler.welcome_message_played /\ clock.idle >= 0)
    /\ (trace'.connects # trace.connects)
        => (~handler'.welcome_message_played /\ clock'.idle < 0)

\* C39: in one connection the welcome is published at most once, whatever
\* the stream sends, and the activity time is set when it has been played;
\* the monitor has the farewell published and disconnects only with the
\* welcome flag and the activity time set; connect() leaves both unset.
C39_WelcomeOncePerConnect ==
    /\ [](trace.welcome_calls <= 1)
    /\ [][WelcomeOrder]_vars

\* The second connection of a handler had its welcome published and ended
\* on the monitor's timeout.
C39_Witness ==
    /\ trace.connects = 2
    /\ trace.welcome_calls = 1
    /\ handler.welcome_message_played
    /\ trace.farewell_calls = 1
    /\ trace.monitor_disconnects = 1
====
